---------------------------- MODULE Spec2Model ----------------------------
(***************************************************************************)
(* Model of laceworkreports/sdk/ReportHelpers.py (class ReportHelper).     *)
(*                                                                         *)
(* Each modelled part has its own specification over the shared            *)
(* variables:                                                              *)
(*   SpecAccounts              get_cloud_accounts                          *)
(*   SpecCompliance            get_compliance_report                       *)
(*   SpecSync                  sqlite_sync_report                          *)
(*   SpecStore                 sqlite_sync_report, then sqlite_drop_table  *)
(*   SpecComplianceQueries     sqlite_queries with ComplianceQueries       *)
(*   SpecScore                 the score CASE of VulnerabilityQueries      *)
(*   SpecVulnerabilityQueries  sqlite_queries with VulnerabilityQueries    *)
(*   SpecReports               report_callback, get_reports                *)
(*   SpecDiscovery             the discovery queries                       *)
(*   SpecAgentQueries          sqlite_queries with AgentQueries            *)
(*   SpecAttribution           get_vulnerability_report and                *)
(*                             get_compliance_report in sequence           *)
(*                                                                         *)
(* Python strings that the code splits, upper-cases or formats are         *)
(* sequences of one-character strings, so that split(":"), upper() and     *)
(* f-string formatting are computed, not assumed.                          *)
(***************************************************************************)
EXTENDS Integers, Sequences, FiniteSets, TLC

VARIABLES
    \* ---- get_cloud_accounts ----
    caPc,            \* position in get_cloud_accounts
    organization,    \* the organization argument (None or a string)
    accounts,        \* local list `accounts`
    aws_accounts,    \* local list `aws_accounts`
    gcp_accounts,    \* local list `gcp_accounts`
    azure_accounts,  \* local list `azure_accounts`
    caSrc,           \* history: caSrc[i] is the input row that produced accounts[i]
    caInt,           \* history: integration records iterated so far
    caTel,           \* history: telemetry rows iterated so far
    \* ---- get_compliance_report ----
    crPc,            \* position of the last get_compliance_report call
    crArgs,          \* its arguments
    crRequest,       \* the remote report request it issued (NoRequest if none)
    crResult,        \* the list it returned
    \* ---- sqlite_sync_report ----
    syPc,            \* position in sqlite_sync_report
    syArgs,          \* arguments of the running call (db path, queries)
    syReport,        \* history: rows of `report` iterated so far in this call
    syRow,           \* loop variable `row`
    syMissing,       \* missing_columns not yet added
    syTrace,         \* history: database statements issued for the current row
    syStored,        \* history: rows of this call whose insert succeeded
    syResults,       \* local dict `results`
    syCalls,         \* number of calls started
    syPrev,          \* history: table of the persistent database when the previous call on it ended
    db,              \* the databases: db[path] is the table `table_name` in that file
    \* ---- sqlite_drop_table ----
    sdHist,          \* history: for each call so far, whether it found the table
    sdRet,           \* what the last call returned ("none" before the first call)
    \* ---- sqlite_queries with ComplianceQueries ----
    cqTable,         \* the stored compliance reports (rows of :db_table)
    cqResults,       \* the dict `results` of the last call (NoResults before it)
    \* ---- the per-instance score of VulnerabilityQueries ----
    vsCounts,        \* per-instance totals critical, high, medium, low, info
    vsScore,         \* the total_coverage computed for them (Unset before)
    \* ---- sqlite_queries with VulnerabilityQueries ----
    vqTable,         \* the stored vulnerability findings (rows of :db_table)
    vqMachines,      \* the rows of table `machines`
    vqResults,       \* the dict `results` of the last call (NoResults before it)
    \* ---- report_callback / get_reports ----
    rcFutures,       \* the completed futures: rcFutures[t] is the result of the future of callback t
    rcPc,            \* rcPc[t]: position of callback t in report_callback
    rcLocal,         \* rcLocal[t]: the value of self.reports that callback t has read
    reports,         \* self.reports
    rcReturned,      \* what get_reports returned (empty before the call)
    \* ---- the discovery queries ----
    dcPc,            \* position in the running discovery call
    dcArgs,          \* its arguments (operation, lwAccount, cloud_account, ignore_errors)
    dcWorld,         \* the instances the platform knows during the call
    dcIssued,        \* history: the queries issued so far and what each one answered
    dcResults,       \* local list `results` / `result`, returned at the end
    \* ---- sqlite_queries with AgentQueries ----
    aqTable,         \* the stored discovered instances (rows of :db_table)
    aqMachines,      \* the rows of table `machines` (agent machines)
    aqResults,       \* the dict `results` of the last call (NoResults before it)
    \* ---- get_vulnerability_report and the caller collecting rows ----
    vrPc,            \* how the last get_vulnerability_report call ended
    vrArgs,          \* its arguments
    vrTable,         \* the shared table db_table of use_sqlite mode
    vrRows,          \* the rows the caller obtained in memory from the calls so far
    vrCalls          \* number of report calls made

caVars == <<caPc, organization, accounts, aws_accounts, gcp_accounts,
            azure_accounts, caSrc, caInt, caTel>>
crVars == <<crPc, crArgs, crRequest, crResult>>
syVars == <<syPc, syArgs, syReport, syRow, syMissing, syTrace, syStored,
            syResults, syCalls, syPrev, db>>
sdVars == <<sdHist, sdRet>>
cqVars == <<cqTable, cqResults>>
vsVars == <<vsCounts, vsScore>>
vqVars == <<vqTable, vqMachines, vqResults>>
rcVars == <<rcFutures, rcPc, rcLocal, reports, rcReturned>>
dcVars == <<dcPc, dcArgs, dcWorld, dcIssued, dcResults>>
aqVars == <<aqTable, aqMachines, aqResults>>
vrVars == <<vrPc, vrArgs, vrTable, vrRows, vrCalls>>
vars == <<caVars, crVars, syVars, sdVars, cqVars, vsVars, vqVars,
         rcVars,
         dcVars,
         aqVars,
         vrVars>>

\* what each part leaves alone: the variables of all the other parts
exceptCa == <<crVars, syVars, sdVars, cqVars, vsVars, vqVars,
             rcVars,
             dcVars,
             aqVars,
             vrVars>>
exceptCr == <<caVars, syVars, sdVars, cqVars, vsVars, vqVars,
             rcVars,
             dcVars,
             aqVars,
             vrVars>>
exceptSy == <<caVars, crVars, sdVars, cqVars, vsVars, vqVars,
             rcVars,
             dcVars,
             aqVars,
             vrVars>>
exceptSd == <<caVars, crVars, cqVars, vsVars, vqVars,
             rcVars,
             dcVars,
             aqVars,
             vrVars>>
exceptCq == <<caVars, crVars, syVars, sdVars, vsVars, vqVars,
             rcVars,
             dcVars,
             aqVars,
             vrVars>>
exceptVs == <<caVars, crVars, syVars, sdVars, cqVars, vqVars,
             rcVars,
             dcVars,
             aqVars,
             vrVars>>
exceptVq == <<caVars, crVars, syVars, sdVars, cqVars, vsVars,
             rcVars,
             dcVars,
             aqVars,
             vrVars>>
exceptRc == <<caVars, crVars, syVars, sdVars, cqVars, vsVars, vqVars,
             dcVars,
             aqVars,
             vrVars>>
exceptDc == <<caVars, crVars, syVars, sdVars, cqVars, vsVars, vqVars, rcVars,
             aqVars,
             vrVars>>
exceptAq == <<caVars, crVars, syVars, sdVars, cqVars, vsVars, vqVars, rcVars, dcVars,
             vrVars>>
exceptVr == <<caVars, crVars, syVars, sdVars, cqVars, vsVars, vqVars, rcVars, dcVars, aqVars>>

-----------------------------------------------------------------------------
(* Bounds                                                                   *)

MaxIntegrations == 2   \* integration records per get_cloud_accounts call
MaxTelemetry == 2      \* telemetry rows per get_cloud_accounts call
MaxRows == 2           \* rows per sqlite_sync_report call
MaxCalls == 2          \* successive sqlite_sync_report calls

-----------------------------------------------------------------------------
(* Python values and string operations                                      *)

\* Python None where a string is expected (distinct from every string).
None == <<"<None>">>
\* Python None / True / False in fields that are only copied.
PyNone == "None"
PyTrue == "True"
PyFalse == "False"

\* the separator used by split(":") and by the f-strings
Colon == ":"

sAws == <<"a", "w", "s">>
sGcp == <<"g", "c", "p">>
sAz == <<"a", "z">>
sNoneText == <<"N", "o", "n", "e">>

\* str(x) as applied by f-string interpolation: None is rendered "None"
Str(x) == IF x = None THEN sNoneText ELSE x

\* one character of str.upper()
CharUpper(c) ==
    CASE c = "a" -> "A"
      [] c = "b" -> "B"
      [] c = "c" -> "C"
      [] c = "d" -> "D"
      [] c = "e" -> "E"
      [] c = "f" -> "F"
      [] OTHER -> c

\* str.upper()
Upper(s) == [i \in 1..Len(s) |-> CharUpper(s[i])]

RECURSIVE SplitFrom(_, _, _, _)
SplitFrom(s, i, cur, out) ==
    IF i > Len(s) THEN Append(out, cur)
    ELSE IF s[i] = Colon THEN SplitFrom(s, i + 1, <<>>, Append(out, cur))
    ELSE SplitFrom(s, i + 1, Append(cur, s[i]), out)

\* s.split(":")
Split(s) == SplitFrom(s, 1, <<>>, <<>>)

RECURSIVE Join(_)
\* ":".join(fields)
Join(fields) ==
    IF Len(fields) = 0 THEN <<>>
    ELSE IF Len(fields) = 1 THEN fields[1]
    ELSE fields[1] \o <<Colon>> \o Join(Tail(fields))

\* x in lst
InList(x, lst) == \E i \in 1..Len(lst) : lst[i] = x

\* lst[-1]
Last(lst) == lst[Len(lst)]

-----------------------------------------------------------------------------
(* get_cloud_accounts: inputs                                                *)

\* the lwAccount argument
LwAccount == "tenant-a"

sArn == <<"a", "r", "n">>
sIam == <<"i", "a", "m">>
sRole == <<"r", "o", "l", "e", "/", "x">>

\* colon-delimited fields of the role ARNs of the AWS integrations:
\* arn:aws:iam::<account>:role/x
ArnFields ==
    { <<sArn, sAws, sIam, <<>>, <<"1", "1">>, sRole>>,
      <<sArn, sAws, sIam, <<>>, <<"2", "2">>, sRole>>,
      <<sArn, <<"a", "w", "s", "-", "c", "n">>, sIam, <<>>, <<"1", "1">>, sRole>> }

OrgDeclared == <<"o", "1">>
OrgOverride == <<"o", "9">>
Project1 == <<"p", "1">>
Project2 == <<"p", "2">>
Project3 == <<"p", "3">>
Tenant1 == <<"t", "1">>
SubLower == <<"a", "b">>
SubUpper == <<"A", "B">>
SubOther == <<"c", "d">>

\* one element of cloud_accounts["data"]; every record carries all fields,
\* the ones its type does not use are empty
IntegrationRecord(type, name, idType, id, ids, roleArn, tenantId) ==
    [type |-> type, name |-> name, isOrg |-> PyFalse, enabled |-> PyTrue,
     ok |-> PyTrue, idType |-> idType, id |-> id, ids |-> ids,
     roleArn |-> roleArn, tenantId |-> tenantId]

AwsRecord(fields) ==
    IntegrationRecord("AwsCfg", "aws-int", "", <<>>, <<>>, Join(fields), <<>>)

GcpRecord(idType, id, projectIds) ==
    IntegrationRecord("GcpCfg", "gcp-int", idType, id, projectIds, <<>>, <<>>)

AzureRecord(tenantId, subscriptionIds) ==
    IntegrationRecord("AzureCfg", "az-int", "", <<>>, subscriptionIds, <<>>, tenantId)

IntegrationRecords ==
    { AwsRecord(f) : f \in ArnFields }
    \cup { GcpRecord("ORGANIZATION", OrgDeclared, <<Project1, Project2>>),
           GcpRecord("PROJECT", Project1, <<Project1>>),
           GcpRecord("PROJECT", Project2, <<Project2, Project2>>) }
    \cup { AzureRecord(Tenant1, <<SubLower>>),
           AzureRecord(Tenant1, <<SubUpper, SubOther>>) }
    \cup { IntegrationRecord("AwsCtSqs", "ct-int", "", <<>>, <<>>, <<>>, <<>>) }

\* rows returned by the LW_HE_MACHINES query (ACCOUNTID / PROJECTID / VMPROVIDER)
TelemetryRows ==
    [ACCOUNTID : {<<"1", "1">>, <<"3", "3">>}, PROJECTID : {None}, VMPROVIDER : {"AWS"}]
    \cup [ACCOUNTID : {None}, PROJECTID : {None}, VMPROVIDER : {"AWS"}]
    \cup [ACCOUNTID : {None}, PROJECTID : {Project1, Project3}, VMPROVIDER : {"GCE"}]
    \cup [ACCOUNTID : {None}, PROJECTID : {SubLower, SubUpper}, VMPROVIDER : {"Azure"}]

-----------------------------------------------------------------------------
(* get_cloud_accounts: the loop bodies                                       *)

\* the locals the two loops update, with the history of sources
CaState(accs, seen, src) == [accounts |-> accs, seen |-> seen, src |-> src]

\* the `data` dict built for an integration record
IntegrationData(row, accountId) ==
    [lwAccount |-> LwAccount, accountId |-> accountId, name |-> row.name,
     isOrg |-> row.isOrg, enabled |-> row.enabled, state |-> row.ok,
     type |-> row.type]

\* the `data` dict built for a telemetry row
LqlData(accountId, type) ==
    [lwAccount |-> LwAccount, accountId |-> accountId, name |-> "LQL Discovered",
     isOrg |-> PyNone, enabled |-> PyTrue, state |-> PyNone, type |-> type]

\* lines 168-180: the organization id of a GcpCfg record
GcpOrgId(row, org) ==
    LET orgId == IF row.idType = "ORGANIZATION" THEN row.id ELSE None
    IN  IF (org # None /\ orgId # None) \/ orgId # None THEN orgId
        ELSE IF org # None THEN org
        ELSE orgId

\* f"gcp:{orgId}:{projectId}"
GcpAccountId(orgId, projectId) ==
    sGcp \o <<Colon>> \o Str(orgId) \o <<Colon>> \o Str(projectId)

\* faulty variant: takes the field before the account number
AwsAccount_Field4(roleArn) == Split(roleArn)[4]

\* row["data"]["crossAccountCredentials"]["roleArn"].split(":")[4]
AwsAccount(roleArn) == Split(roleArn)[5]

\* f"aws:{account}"
AwsAccountId(account) == sAws \o <<Colon>> \o Str(account)

\* f"az:{tenantId}:{subscriptionId.upper()}"
AzureAccountId(tenantId, subscriptionId) ==
    sAz \o <<Colon>> \o Str(tenantId) \o <<Colon>> \o Upper(subscriptionId)

RECURSIVE GcpProjects(_, _, _, _)
\* lines 182-195: for projectId in projectIds
GcpProjects(row, orgId, projectIds, st) ==
    IF projectIds = <<>> THEN st
    ELSE LET projectId == Head(projectIds)
             data == IntegrationData(row, GcpAccountId(orgId, projectId))
             next == IF ~InList(projectId, st.seen)
                     THEN CaState(Append(st.accounts, data),
                                  Append(st.seen, projectId),
                                  Append(st.src, row))
                     ELSE st
         IN  GcpProjects(row, orgId, Tail(projectIds), next)

RECURSIVE AzureSubscriptions(_, _, _)
\* lines 219-232: for subscriptionId in subscriptionIds
AzureSubscriptions(row, subscriptionIds, st) ==
    IF subscriptionIds = <<>> THEN st
    ELSE LET subscriptionId == Head(subscriptionIds)
             data == IntegrationData(row, AzureAccountId(row.tenantId, subscriptionId))
             next == IF ~InList(Upper(subscriptionId), st.seen)
                     THEN CaState(Append(st.accounts, data),
                                  Append(st.seen, Upper(subscriptionId)),
                                  Append(st.src, row))
                     ELSE st
         IN  AzureSubscriptions(row, Tail(subscriptionIds), next)

\* faulty variant: appends without looking at aws_accounts
AwsIntegration_NoDedup(row, st) ==
    LET account == Split(row.roleArn)[5]
        data == IntegrationData(row, AwsAccountId(account))
    IN  CaState(Append(st.accounts, data), Append(st.seen, account),
                Append(st.src, row))

\* lines 196-212: an AwsCfg record
AwsIntegration(row, st) ==
    LET account == AwsAccount(row.roleArn)
        data == IntegrationData(row, AwsAccountId(account))
    IN  IF ~InList(account, st.seen)
        THEN CaState(Append(st.accounts, data), Append(st.seen, account),
                     Append(st.src, row))
        ELSE st

\* lines 261-316: the branch taken for a telemetry row m
TelemetryBranch(m, aws, gcp, azure) ==
    IF m.ACCOUNTID # None /\ m.VMPROVIDER = "AWS" /\ ~InList(m.ACCOUNTID, aws)
        THEN "aws"
    ELSE IF m.PROJECTID # None /\ m.VMPROVIDER = "GCE" /\ ~InList(m.PROJECTID, gcp)
        THEN "gcp"
    ELSE IF m.PROJECTID # None /\ m.VMPROVIDER = "Azure" /\ ~InList(m.PROJECTID, azure)
        THEN "az"
    ELSE "none"

\* f"aws:{m['ACCOUNTID']}", f"gcp::{m['PROJECTID']}", f"az::{m['PROJECTID']}"
LqlAccountId(prefix, rawId) ==
    IF prefix = sAws THEN prefix \o <<Colon>> \o Str(rawId)
    ELSE prefix \o <<Colon, Colon>> \o Str(rawId)

\* the body shared by the three telemetry branches
LqlCandidate(m, prefix, rawId, type, st) ==
    LET accountId == LqlAccountId(prefix, rawId)
    IN  IF ~InList(Last(Split(accountId)), st.seen)
        THEN CaState(Append(st.accounts, LqlData(accountId, type)),
                     Append(st.seen, rawId), Append(st.src, m))
        ELSE st

-----------------------------------------------------------------------------
(* get_cloud_accounts: the steps                                             *)

CaInit ==
    /\ caPc = "integrations"
    /\ organization \in {None, OrgOverride}
    /\ accounts = <<>>
    /\ aws_accounts = <<>>
    /\ gcp_accounts = <<>>
    /\ azure_accounts = <<>>
    /\ caSrc = <<>>
    /\ caInt = <<>>
    /\ caTel = <<>>

\* one iteration of `for row in cloud_accounts["data"]`
IntegrationRow ==
    /\ caPc = "integrations"
    /\ Len(caInt) < MaxIntegrations
    /\ \E row \in IntegrationRecords :
        /\ caInt' = Append(caInt, row)
        /\ IF row.type = "GcpCfg" THEN
               LET st == GcpProjects(row, GcpOrgId(row, organization), row.ids,
                                     CaState(accounts, gcp_accounts, caSrc))
               IN  /\ accounts' = st.accounts
                   /\ gcp_accounts' = st.seen
                   /\ caSrc' = st.src
                   /\ UNCHANGED <<aws_accounts, azure_accounts>>
           ELSE IF row.type = "AwsCfg" THEN
               LET st == AwsIntegration(row, CaState(accounts, aws_accounts, caSrc))
               IN  /\ accounts' = st.accounts
                   /\ aws_accounts' = st.seen
                   /\ caSrc' = st.src
                   /\ UNCHANGED <<gcp_accounts, azure_accounts>>
           ELSE IF row.type = "AzureCfg" THEN
               LET st == AzureSubscriptions(row, row.ids,
                                            CaState(accounts, azure_accounts, caSrc))
               IN  /\ accounts' = st.accounts
                   /\ azure_accounts' = st.seen
                   /\ caSrc' = st.src
                   /\ UNCHANGED <<aws_accounts, gcp_accounts>>
           ELSE UNCHANGED <<accounts, aws_accounts, gcp_accounts, azure_accounts, caSrc>>
    /\ UNCHANGED <<caPc, organization, caTel>>
    /\ UNCHANGED exceptCa

\* lines 249-259: the LW_HE_MACHINES query; an ApiError is not caught here
TelemetryQuery ==
    /\ caPc = "integrations"
    /\ \E apiOk \in BOOLEAN : caPc' = IF apiOk THEN "telemetry" ELSE "raised"
    /\ UNCHANGED <<organization, accounts, aws_accounts, gcp_accounts,
                   azure_accounts, caSrc, caInt, caTel>>
    /\ UNCHANGED exceptCa

\* one iteration of `for m in machine_accounts`
TelemetryRow ==
    /\ caPc = "telemetry"
    /\ Len(caTel) < MaxTelemetry
    /\ \E m \in TelemetryRows :
        LET branch == TelemetryBranch(m, aws_accounts, gcp_accounts, azure_accounts)
        IN  /\ caTel' = Append(caTel, m)
            /\ IF branch = "aws" THEN
                   LET st == LqlCandidate(m, sAws, m.ACCOUNTID, "AwsLql",
                                          CaState(accounts, aws_accounts, caSrc))
                   IN  /\ accounts' = st.accounts
                       /\ aws_accounts' = st.seen
                       /\ caSrc' = st.src
                       /\ UNCHANGED <<gcp_accounts, azure_accounts>>
               ELSE IF branch = "gcp" THEN
                   LET st == LqlCandidate(m, sGcp, m.PROJECTID, "GcpLql",
                                          CaState(accounts, gcp_accounts, caSrc))
                   IN  /\ accounts' = st.accounts
                       /\ gcp_accounts' = st.seen
                       /\ caSrc' = st.src
                       /\ UNCHANGED <<aws_accounts, azure_accounts>>
               ELSE IF branch = "az" THEN
                   LET st == LqlCandidate(m, sAz, m.PROJECTID, "AzureLql",
                                          CaState(accounts, azure_accounts, caSrc))
                   IN  /\ accounts' = st.accounts
                       /\ azure_accounts' = st.seen
                       /\ caSrc' = st.src
                       /\ UNCHANGED <<aws_accounts, gcp_accounts>>
               ELSE UNCHANGED <<accounts, aws_accounts, gcp_accounts,
                                azure_accounts, caSrc>>
    /\ UNCHANGED <<caPc, organization, caInt>>
    /\ UNCHANGED exceptCa

\* line 318: return accounts
CaReturn ==
    /\ caPc = "telemetry"
    /\ caPc' = "done"
    /\ UNCHANGED <<organization, accounts, aws_accounts, gcp_accounts,
                   azure_accounts, caSrc, caInt, caTel>>
    /\ UNCHANGED exceptCa

CaNext == IntegrationRow \/ TelemetryQuery \/ TelemetryRow \/ CaReturn

\* get_cloud_accounts is not running
CaIdle ==
    /\ caPc = "idle"
    /\ organization = None
    /\ accounts = <<>>
    /\ aws_accounts = <<>>
    /\ gcp_accounts = <<>>
    /\ azure_accounts = <<>>
    /\ caSrc = <<>>
    /\ caInt = <<>>
    /\ caTel = <<>>

-----------------------------------------------------------------------------
(* get_compliance_report                                                     *)

\* crRequest when no remote report was requested
NoRequest == [api |-> "none", scope |-> <<>>, id |-> <<>>]

\* the cloud_account argument: composite ids as get_cloud_accounts builds
\* them, and malformed ones
CloudAccountArgs ==
    { AwsAccountId(<<"1", "1">>),
      GcpAccountId(OrgDeclared, Project1),
      GcpAccountId(None, Project1),
      LqlAccountId(sGcp, Project1),
      AzureAccountId(Tenant1, SubLower),
      LqlAccountId(sAz, SubLower),
      sGcp \o <<Colon>> \o Project1,
      sAz \o <<Colon>> \o Tenant1,
      sAws,
      <<"o", "c", "i">> \o <<Colon>> \o Project1 }

CrArgSets ==
    [lwAccount : {"tenant-a", "tenant-b"},
     cloud_account : CloudAccountArgs,
     ignore_errors : BOOLEAN,
     organization : {None, OrgOverride}]

\* what the remote compliance API does with a request: a report, an empty
\* data list, or laceworksdk.exceptions.ApiError
ApiOutcomes == {"report", "empty", "ApiError"}

\* r = report["data"].pop() for each provider
RemoteReport(req) ==
    IF req.api = "aws"
        THEN [reportType |-> "AWS_CIS_S3", accountId |-> req.id]
    ELSE IF req.api = "gcp"
        THEN [reportType |-> "GCP_CIS12", organizationId |-> req.scope,
              projectId |-> req.id]
    ELSE [reportType |-> "AZURE_CIS_131", tenantId |-> req.scope,
          subscriptionId |-> req.id]

\* r["accountId"] = cloud_account; r["lwAccount"] = lwAccount; r.pop(...)
AttributedRow(r, cloud_account, lwAccount, popped) ==
    [k \in (DOMAIN r \cup {"accountId", "lwAccount"}) \ popped |->
        IF k = "accountId" THEN cloud_account
        ELSE IF k = "lwAccount" THEN lwAccount
        ELSE r[k]]

\* marks the branch of line 518 (no organization at all)
MissingOrg == <<"<missing>">>

\* lines 518-533: the organization the GCP report is requested for
\* (MissingOrg when the code takes the missing-organization branch)
GcpReportOrg(orgId, org) ==
    IF org = None /\ orgId = None THEN MissingOrg
    ELSE IF (org # None /\ orgId # None) \/ orgId # None THEN orgId
    ELSE IF org # None THEN org
    ELSE orgId

\* the try/except around each remote request (e.g. lines 500-514)
CrFetch(args, req, popped, outcome) ==
    /\ crRequest' = req
    /\ IF outcome = "report" THEN
           /\ crResult' = <<AttributedRow(RemoteReport(req), args.cloud_account,
                                          args.lwAccount, popped)>>
           /\ crPc' = "returned"
       ELSE IF outcome = "empty" THEN
           /\ crResult' = <<>>
           /\ crPc' = "IndexError"
       ELSE
           /\ crResult' = <<>>
           /\ crPc' = IF args.ignore_errors THEN "returned" ELSE "ApiError"

CrInit ==
    /\ crPc = "idle"
    /\ crArgs = [lwAccount |-> "tenant-a", cloud_account |-> <<>>,
                 ignore_errors |-> TRUE, organization |-> None]
    /\ crRequest = NoRequest
    /\ crResult = <<>>

\* the body of get_compliance_report (lines 495-574)
ComplianceReportBody ==
    \E args \in CrArgSets, outcome \in ApiOutcomes :
        LET cloud_account_details == Split(args.cloud_account)
            csp == cloud_account_details[1]
            n == Len(cloud_account_details)
        IN  /\ crArgs' = args
            /\ IF csp = sAws THEN
                   IF n < 2
                   THEN /\ crPc' = "IndexError"
                        /\ crRequest' = NoRequest
                        /\ crResult' = <<>>
                   ELSE CrFetch(args, [api |-> "aws", scope |-> <<>>,
                                       id |-> cloud_account_details[2]],
                                {}, outcome)
               ELSE IF csp = sGcp THEN
                   IF n # 3
                   THEN /\ crPc' = "ValueError"
                        /\ crRequest' = NoRequest
                        /\ crResult' = <<>>
                   ELSE LET orgId == GcpReportOrg(cloud_account_details[2],
                                                  args.organization)
                        IN  IF orgId = MissingOrg
                            THEN /\ crPc' = "TypeError"
                                 /\ crRequest' = NoRequest
                                 /\ crResult' = <<>>
                            ELSE CrFetch(args, [api |-> "gcp", scope |-> orgId,
                                                id |-> cloud_account_details[3]],
                                         {"organizationId", "projectId"}, outcome)
               ELSE IF csp = sAz THEN
                   IF n # 3
                   THEN /\ crPc' = "ValueError"
                        /\ crRequest' = NoRequest
                        /\ crResult' = <<>>
                   ELSE CrFetch(args, [api |-> "az", scope |-> cloud_account_details[2],
                                       id |-> cloud_account_details[3]],
                                {"tenantId", "subscriptionId"}, outcome)
               ELSE /\ crPc' = "returned"
                    /\ crRequest' = NoRequest
                    /\ crResult' = <<>>

\* one call of get_compliance_report (lines 482-574)
GetComplianceReport == ComplianceReportBody /\ UNCHANGED exceptCr

CrNext == GetComplianceReport

-----------------------------------------------------------------------------
(* sqlite_sync_report: values, rows and the table                            *)

\* a Python value of a report row: its type and its text
Val(kind, v) == [kind |-> kind, v |-> v]

\* SQL NULL
NULL == Val("null", "")

\* the rows a report is made of; their key sets drift
ReportRows ==
    { [lwAccount |-> Val("str", "t1"), a |-> Val("int", "1")],
      [lwAccount |-> Val("str", "t2"), a |-> Val("int", "2"), b |-> Val("json", "[1]")],
      [lwAccount |-> Val("str", "t1"), c |-> Val("str", "x")],
      [a |-> Val("int", "3"), d |-> Val("float", "1.5")] }

\* the order in which the keys of a row are enumerated
KeyOrder == <<"lwAccount", "a", "b", "c", "d">>

\* row.keys()
RowKeys(row) == SelectSeq(KeyOrder, LAMBDA k : k \in DOMAIN row)

\* SQLite matches column names without regard to case
Lower(name) == IF name = "lwAccount" THEN "lwaccount" ELSE name

\* the table `table_name` of one database file
NoTable == [exists |-> FALSE, cols |-> <<>>, rows |-> <<>>]

ColNames(t) == {t.cols[i].name : i \in 1..Len(t.cols)}

\* column type pandas gives a column when to_sql creates the table
\* (dtype JSON for dict/list values, lines 360-362)
CreateType(v) ==
    CASE v.kind = "json" -> "JSON"
      [] v.kind = "int" -> "BIGINT"
      [] v.kind = "float" -> "FLOAT"
      [] OTHER -> "TEXT"

\* lines 386-394: column type of an added column
AlterType(v) ==
    CASE v.kind = "json" -> "JSON"
      [] v.kind = "int" -> "INTEGER"
      [] OTHER -> "TEXT"

\* the value as it is bound into the INSERT: dict/list values are
\* serialised to JSON text, the others keep their type
Bound(v) == IF v.kind = "json" THEN Val("text", v.v) ELSE v

\* CREATE TABLE issued by to_sql when the table does not exist
CreateTable(row) ==
    LET keys == RowKeys(row)
    IN  [exists |-> TRUE,
         cols |-> [i \in 1..Len(keys) |->
                     [name |-> keys[i], type |-> CreateType(row[keys[i]])]],
         rows |-> <<>>]

\* INSERT of one row: columns the row does not name are NULL
InsertRow(t, row) ==
    [t EXCEPT !.rows = Append(@, [c \in ColNames(t) |->
                                    IF c \in DOMAIN row THEN Bound(row[c]) ELSE NULL])]

\* faulty variant: rebuilds the table with the new column and loses its rows
AddColumn_Rebuild(t, name, type) ==
    [t EXCEPT !.cols = Append(@, [name |-> name, type |-> type]),
              !.rows = <<>>]

\* ALTER TABLE ... ADD column: existing rows get NULL in the new column
AddColumn(t, name, type) ==
    [t EXCEPT !.cols = Append(@, [name |-> name, type |-> type]),
              !.rows = [i \in 1..Len(t.rows) |->
                          [c \in ColNames(t) \cup {name} |->
                              IF c \in ColNames(t) THEN t.rows[i][c] ELSE NULL]]]

\* df.to_sql(name, con, if_exists="append"): "ok" or the missing-column error
ToSqlOutcome(t, row) ==
    IF ~t.exists THEN "ok"
    ELSE IF DOMAIN row \subseteq ColNames(t) THEN "ok"
    ELSE "no column"

\* the table after a successful to_sql
ToSql(t, row) == InsertRow(IF t.exists THEN t ELSE CreateTable(row), row)

\* lines 374-380: the SELECT * LIMIT 1 probe and missing_columns
MissingColumns(t, row) ==
    SelectSeq(RowKeys(row), LAMBDA k : k \notin ColNames(t))

RECURSIVE Distinct(_, _)
\* the distinct values of a sequence, in order of first occurrence
Distinct(seq, out) ==
    IF seq = <<>> THEN out
    ELSE Distinct(Tail(seq), IF InList(Head(seq), out) THEN out
                             ELSE Append(out, Head(seq)))

\* the column a name in a query refers to ("" if there is none)
ResolveColumn(t, name) ==
    IF \E c \in ColNames(t) : Lower(c) = Lower(name)
    THEN CHOOSE c \in ColNames(t) : Lower(c) = Lower(name)
    ELSE ""

\* the statement fails: "no such table" or "no such column"
LwAccountQueryFails(t) == ~t.exists \/ ResolveColumn(t, "lwaccount") = ""

\* ComplianceQueries["lwaccount"] (lines 1572-1577):
\* SELECT DISTINCT lwaccount FROM :db_table
LwAccountQuery(t) ==
    LET col == ResolveColumn(t, "lwaccount")
    IN  Distinct([i \in 1..Len(t.rows) |-> t.rows[i][col]], <<>>)

\* the names of the queries dict passed to a call
QuerySets == {{}, {"lwaccount"}}

SyArgSets == [db_path_override : {PyNone, "file"}, queries : QuerySets]

\* the database file a call works on (lines 333-336)
DbPath(args) == IF args.db_path_override # PyNone THEN args.db_path_override ELSE "tmp"

\* leaving the TemporaryDirectory block removes the temporary database
AfterExit(d, args) == IF DbPath(args) = "tmp" THEN [d EXCEPT !["tmp"] = NoTable] ELSE d

\* one database statement in the history of the current row
Stmt(op, cols, ok) == [op |-> op, cols |-> cols, ok |-> ok]

-----------------------------------------------------------------------------
(* sqlite_sync_report: the steps                                             *)

SyInit ==
    /\ syPc = "idle"
    /\ syArgs = [db_path_override |-> PyNone, queries |-> {}]
    /\ syReport = <<>>
    /\ syRow = [a |-> NULL]
    /\ syMissing = <<>>
    /\ syTrace = <<>>
    /\ syStored = <<>>
    /\ syResults = {}
    /\ syCalls = 0
    /\ syPrev = NoTable
    /\ db = [path \in {"tmp", "file"} |-> NoTable]

\* faulty variant: the table is not dropped when the call starts
SyncBegin_NoDrop ==
    /\ syPc \in {"idle", "returned", "raised"}
    /\ syCalls < MaxCalls
    /\ \E args \in SyArgSets :
        /\ syArgs' = args
        /\ db' = IF DbPath(args) = "tmp" THEN [db EXCEPT !["tmp"] = NoTable] ELSE db
    /\ syPc' = "loop"
    /\ syCalls' = syCalls + 1
    /\ syPrev' = db["file"]
    /\ syReport' = <<>>
    /\ syStored' = <<>>
    /\ syTrace' = <<>>
    /\ syMissing' = <<>>
    /\ syResults' = {}
    /\ UNCHANGED syRow
    /\ UNCHANGED exceptSy

\* lines 328-354: open the database and drop the table if it exists
SyncBegin ==
    /\ syPc \in {"idle", "returned", "raised"}
    /\ syCalls < MaxCalls
    /\ \E args \in SyArgSets :
        /\ syArgs' = args
        /\ db' = [db EXCEPT ![DbPath(args)] = NoTable]
    /\ syPc' = "loop"
    /\ syCalls' = syCalls + 1
    /\ syPrev' = db["file"]
    /\ syReport' = <<>>
    /\ syStored' = <<>>
    /\ syTrace' = <<>>
    /\ syMissing' = <<>>
    /\ syResults' = {}
    /\ UNCHANGED syRow
    /\ UNCHANGED exceptSy

\* lines 357-380: one iteration of `for row in report`, up to the first
\* to_sql and the except clause.  `fault` is an error of the database other
\* than a missing column: an OperationalError ("duplicate column name" when
\* two keys differ by case only, "database is locked", ...) or another
\* exception class.
SyInsert ==
    /\ syPc = "loop"
    /\ Len(syReport) < MaxRows
    /\ \E row \in ReportRows, fault \in {"none", "OperationalError", "Exception"} :
        LET t == db[DbPath(syArgs)]
            outcome == IF fault = "none" THEN ToSqlOutcome(t, row) ELSE fault
        IN  /\ syReport' = Append(syReport, row)
            /\ syRow' = row
            /\ IF outcome = "ok" THEN
                   /\ db' = [db EXCEPT ![DbPath(syArgs)] = ToSql(t, row)]
                   /\ syStored' = Append(syStored, row)
                   /\ syTrace' = <<Stmt("insert", {}, TRUE)>>
                   /\ syMissing' = <<>>
                   /\ syPc' = "loop"
               ELSE IF outcome = "no column" THEN
                   /\ syMissing' = MissingColumns(t, row)
                   /\ syTrace' = <<Stmt("insert", {}, FALSE),
                                   Stmt("select", ColNames(t), TRUE)>>
                   /\ syPc' = "repair"
                   /\ UNCHANGED <<db, syStored>>
               ELSE IF outcome = "OperationalError" THEN
                   /\ syTrace' = <<Stmt("insert", {}, FALSE)>>
                   /\ syMissing' = <<>>
                   /\ syPc' = "loop"
                   /\ UNCHANGED <<db, syStored>>
               ELSE
                   /\ syTrace' = <<Stmt("insert", {}, FALSE)>>
                   /\ syMissing' = <<>>
                   /\ syPc' = "raised"
                   /\ db' = AfterExit(db, syArgs)
                   /\ UNCHANGED syStored
    /\ UNCHANGED <<syArgs, syResults, syCalls, syPrev>>
    /\ UNCHANGED exceptSy

\* lines 381-404: one iteration of `for column in missing_columns`
SyAlter ==
    /\ syPc = "repair"
    /\ syMissing # <<>>
    /\ \E fault \in BOOLEAN :
        LET column == Head(syMissing)
            t == db[DbPath(syArgs)]
        IN  IF fault
            THEN /\ syTrace' = Append(syTrace, Stmt("alter", {column}, FALSE))
                 /\ syPc' = "raised"
                 /\ db' = AfterExit(db, syArgs)
                 /\ UNCHANGED syMissing
            ELSE /\ syTrace' = Append(syTrace, Stmt("alter", {column}, TRUE))
                 /\ db' = [db EXCEPT ![DbPath(syArgs)] =
                              AddColumn(t, column, AlterType(syRow[column]))]
                 /\ syMissing' = Tail(syMissing)
                 /\ syPc' = "repair"
    /\ UNCHANGED <<syArgs, syReport, syRow, syStored, syResults, syCalls, syPrev>>
    /\ UNCHANGED exceptSy

\* faulty variant: a failed retry is repaired and retried again
SyRetry_Again ==
    /\ syPc = "repair"
    /\ syMissing = <<>>
    /\ \E fault \in BOOLEAN :
        LET t == db[DbPath(syArgs)]
            outcome == IF fault THEN "OperationalError" ELSE ToSqlOutcome(t, syRow)
        IN  IF outcome = "ok"
            THEN /\ db' = [db EXCEPT ![DbPath(syArgs)] = ToSql(t, syRow)]
                 /\ syStored' = Append(syStored, syRow)
                 /\ syTrace' = Append(syTrace, Stmt("insert", {}, TRUE))
                 /\ syPc' = "loop"
            ELSE /\ syTrace' = Append(syTrace, Stmt("insert", {}, FALSE))
                 /\ syPc' = "repair"
                 /\ UNCHANGED <<db, syStored>>
    /\ UNCHANGED <<syArgs, syReport, syRow, syMissing, syResults, syCalls, syPrev>>
    /\ UNCHANGED exceptSy

\* lines 406-413: the retry, outside any try block
SyRetry ==
    /\ syPc = "repair"
    /\ syMissing = <<>>
    /\ \E fault \in BOOLEAN :
        LET t == db[DbPath(syArgs)]
            outcome == IF fault THEN "OperationalError" ELSE ToSqlOutcome(t, syRow)
        IN  IF outcome = "ok"
            THEN /\ db' = [db EXCEPT ![DbPath(syArgs)] = ToSql(t, syRow)]
                 /\ syStored' = Append(syStored, syRow)
                 /\ syTrace' = Append(syTrace, Stmt("insert", {}, TRUE))
                 /\ syPc' = "loop"
            ELSE /\ syTrace' = Append(syTrace, Stmt("insert", {}, FALSE))
                 /\ syPc' = "raised"
                 /\ db' = AfterExit(db, syArgs)
                 /\ UNCHANGED syStored
    /\ UNCHANGED <<syArgs, syReport, syRow, syMissing, syResults, syCalls, syPrev>>
    /\ UNCHANGED exceptSy

\* line 415: the loop over the report is over
SyEndLoop ==
    /\ syPc = "loop"
    /\ syPc' = "query"
    /\ UNCHANGED <<syArgs, syReport, syRow, syMissing, syTrace, syStored,
                   syResults, syCalls, syPrev, db>>
    /\ UNCHANGED exceptSy

\* lines 417-428: run the queries and return the results
SyQueries ==
    /\ syPc = "query"
    /\ LET t == db[DbPath(syArgs)]
           failed == "lwaccount" \in syArgs.queries /\ LwAccountQueryFails(t)
       IN  /\ syPc' = IF failed THEN "raised" ELSE "returned"
           /\ syResults' = IF failed THEN {}
                           ELSE {[query |-> q, rows |-> LwAccountQuery(t)] :
                                   q \in syArgs.queries}
           /\ db' = AfterExit(db, syArgs)
    /\ UNCHANGED <<syArgs, syReport, syRow, syMissing, syTrace, syStored,
                   syCalls, syPrev>>
    /\ UNCHANGED exceptSy

SyNext == SyncBegin \/ SyInsert \/ SyAlter \/ SyRetry \/ SyEndLoop \/ SyQueries

-----------------------------------------------------------------------------
(* sqlite_drop_table (lines 465-480)                                         *)

MaxDrops == 2          \* successive sqlite_drop_table calls

SdInit ==
    /\ sdHist = <<>>
    /\ sdRet = "none"

\* faulty variant: the result of has_table is what the call returns
SqliteDropTable_ReturnsFound ==
    /\ syPc \in {"idle", "returned", "raised"}
    /\ Len(sdHist) < MaxDrops
    /\ LET found == db["file"].exists
       IN  /\ db' = IF found THEN [db EXCEPT !["file"] = NoTable] ELSE db
           /\ sdHist' = Append(sdHist, found)
           /\ sdRet' = IF found THEN PyTrue ELSE PyFalse
    /\ UNCHANGED <<syPc, syArgs, syReport, syRow, syMissing, syTrace, syStored,
                   syResults, syCalls, syPrev>>
    /\ UNCHANGED exceptSd

\* lines 465-480: drop the table if engine.has_table says it exists, log
\* otherwise; return True.  db_connection names the persistent database
\* (a temporary one is gone when its sync call ends).
SqliteDropTable ==
    /\ syPc \in {"idle", "returned", "raised"}
    /\ Len(sdHist) < MaxDrops
    /\ LET found == db["file"].exists
       IN  /\ db' = IF found THEN [db EXCEPT !["file"] = NoTable] ELSE db
           /\ sdHist' = Append(sdHist, found)
           /\ sdRet' = PyTrue
    /\ UNCHANGED <<syPc, syArgs, syReport, syRow, syMissing, syTrace, syStored,
                   syResults, syCalls, syPrev>>
    /\ UNCHANGED exceptSd

-----------------------------------------------------------------------------
(* sqlite_queries with ComplianceQueries (lines 430-451, 1327-1578)          *)

MaxControls == 2       \* controls (recommendations) stored in the table

\* no call of sqlite_queries has returned yet
NoResults == [q \in {} |-> <<>>]

CqIdle ==
    /\ cqTable = <<>>
    /\ cqResults = NoResults

\* A nullable SQL number is the set of its values: {} is NULL, {n} is n.
SqlNull == {}
Num(n) == {n}
IsNull(x) == x = {}
ValueOf(x) == CHOOSE n \in x : TRUE

\* SQLite x / y on integers: NULL when y = 0, else the quotient truncated
SqlDiv(x, y) == IF y = 0 THEN SqlNull ELSE Num(x \div y)

\* SQLite n - x with x nullable
SqlMinus(n, x) == IF IsNull(x) THEN SqlNull ELSE Num(n - ValueOf(x))

\* CAST(n / d AS INTEGER) of the real number n / d, d > 0: truncation
\* toward zero
CastInteger(n, d) == IF n >= 0 THEN n \div d ELSE -((-n) \div d)

RECURSIVE SumSeq(_)
SumSeq(s) == IF s = <<>> THEN 0 ELSE Head(s) + SumSeq(Tail(s))

\* SUM(...): NULL over no rows
SqlSum(s) == IF s = <<>> THEN SqlNull ELSE Num(SumSeq(s))

\* all sequences over S of length at most n
SeqsUpTo(S, n) == UNION {[1..k -> S] : k \in 0..n}

\* f applied to each element of s
MapSeq(s, f(_)) == [i \in 1..Len(s) |-> f(s[i])]

RECURSIVE Concat(_)
Concat(ss) == IF ss = <<>> THEN <<>> ELSE Head(ss) \o Concat(Tail(ss))

\* the cloud accounts reports are stored for, in ORDER BY accountId order,
\* and the tenant (lwAccount) of each
AccountOrder == <<"aws:1", "aws:2", "gcp:o:p">>
LwAccountOf == [a \in {"aws:1", "aws:2", "gcp:o:p"} |->
                  IF a = "gcp:o:p" THEN "t2" ELSE "t1"]

\* one recommendation of a report: its SEVERITY, the length of its
\* VIOLATIONS list, its ASSESSED_RESOURCE_COUNT and its STATUS
Severities == {1, 3, 5}
ViolationsAndAssessed == {<<0, 0>>, <<1, 3>>, <<5, 10>>, <<12, 10>>}
Statuses == {"Compliant", "NonCompliant"}
Controls == {[SEVERITY |-> s, VIOLATIONS |-> va[1],
              ASSESSED_RESOURCE_COUNT |-> va[2], STATUS |-> st] :
                s \in Severities, va \in ViolationsAndAssessed, st \in Statuses}

\* the table after the reports of the accounts were stored: one row per
\* account with a report, its recommendations in the order they came
ComplianceTable(entries) ==
    LET Of(a) == SelectSeq(entries, LAMBDA e : e.accountId = a)
        Row(a) == [accountId |-> a, lwAccount |-> LwAccountOf[a],
                   recommendations |-> MapSeq(Of(a), LAMBDA e : e.control)]
    IN  MapSeq(SelectSeq(AccountOrder, LAMBDA a : Of(a) # <<>>), Row)

ComplianceTables ==
    {ComplianceTable(es) :
       es \in SeqsUpTo([accountId : DOMAIN LwAccountOf, control : Controls],
                       MaxControls)}

\* FROM :db_table, json_each(:db_table.recommendations): one row per
\* recommendation, with the columns the queries extract from it
Recommendations(table) ==
    Concat([i \in 1..Len(table) |->
              [j \in 1..Len(table[i].recommendations) |->
                 LET c == table[i].recommendations[j]
                 IN  [accountId |-> table[i].accountId,
                      lwAccount |-> table[i].lwAccount,
                      status |-> c.STATUS,
                      severity_number |-> c.SEVERITY,
                      violation_count |-> c.VIOLATIONS,
                      assessed_resource_count |-> c.ASSESSED_RESOURCE_COUNT]]])

\* lines 1347-1353 and 1412-1418: the CASE that names a SEVERITY
SeverityName(n) ==
    CASE n = 1 -> "info"
      [] n = 2 -> "low"
      [] n = 3 -> "medium"
      [] n = 4 -> "high"
      [] n = 5 -> "critical"
      [] OTHER -> "NULL"

\* faulty variant: the quotient is truncated before it is subtracted
Percent_IntegerQuotient(v, a) ==
    IF v > a THEN Num(100)
    ELSE SqlMinus(100, SqlDiv(v * 100, a))

\* lines 1355-1358: percent.  The quotient is a FLOAT (NULL when the
\* divisor is 0) and the difference is cast to INTEGER.
Percent(v, a) ==
    IF v > a THEN Num(100)
    ELSE IF a = 0 THEN SqlNull
    ELSE Num(CastInteger(100 * a - v * 100, a))

\* lines 1328-1368: query 'report'
ComplianceReport(table) ==
    LET Row(r) == [accountId |-> r.accountId,
                   lwAccount |-> r.lwAccount,
                   status |-> r.status,
                   assessed_resource_count |-> r.assessed_resource_count,
                   violation_count |-> r.violation_count,
                   severity |-> SeverityName(r.severity_number),
                   severity_number |-> r.severity_number,
                   percent |-> Percent(r.violation_count,
                                       r.assessed_resource_count)]
        Where(r) == /\ ~IsNull(r.percent)
                    /\ ValueOf(r.percent) < 100
                    /\ r.status # "Compliant"
        rows == SelectSeq(MapSeq(Recommendations(table), Row), Where)
    IN  Concat(MapSeq(AccountOrder,
                      LAMBDA a : SelectSeq(rows, LAMBDA r : r.accountId = a)))

\* lines 1372-1375 (and 1445-1448, 1509-1512): total_coverage of a group
\* with sums V and A; both sums are integers, so is the quotient
TotalCoverage(V, A) ==
    IF IsNull(V) \/ IsNull(A) THEN SqlNull
    ELSE IF ValueOf(V) > ValueOf(A) THEN Num(100)
    ELSE SqlMinus(100, SqlDiv(ValueOf(V) * 100, ValueOf(A)))

\* SUM(CASE WHEN severity_number = n THEN total_violation_count ELSE 0 END)
BucketSum(g, n) ==
    SqlSum(MapSeq(g, LAMBDA r : IF r.severity_number = n
                                THEN r.violation_count ELSE 0))

\* lines 1372-1419: the aggregate columns of one group g of recommendations
Coverage(g) ==
    LET V == SqlSum(MapSeq(g, LAMBDA r : r.violation_count))
        A == SqlSum(MapSeq(g, LAMBDA r : r.assessed_resource_count))
    IN  [total_coverage |-> TotalCoverage(V, A),
         total_assessed_resource_count |-> IF IsNull(A) THEN 0 ELSE ValueOf(A),
         total_violation_count |-> IF IsNull(V) THEN 0 ELSE ValueOf(V),
         critical |-> BucketSum(g, 1),
         high |-> BucketSum(g, 2),
         medium |-> BucketSum(g, 3),
         low |-> BucketSum(g, 4),
         info |-> BucketSum(g, 5)]

\* lines 1369-1440: query 'account_coverage', one row per
\* (accountId, lwAccount), ordered by accountId
ComplianceAccountCoverage(table) ==
    LET recs == Recommendations(table)
        Group(a) == SelectSeq(recs, LAMBDA r : r.accountId = a)
    IN  MapSeq(SelectSeq(AccountOrder, LAMBDA a : Group(a) # <<>>),
               LAMBDA a : [accountId |-> a, lwAccount |-> LwAccountOf[a]]
                            @@ Coverage(Group(a)))

\* lines 1441-1504: query 'total_summary', the single row of an aggregate
\* without GROUP BY
ComplianceTotalSummary(table) ==
    <<[lwAccount |-> "Any"] @@ Coverage(Recommendations(table))>>

\* lines 1505-1571: query 'lwaccount_summary', one row per lwAccount (the
\* query does not order them)
ComplianceLwaccountSummary(table) ==
    LET recs == Recommendations(table)
        Group(l) == SelectSeq(recs, LAMBDA r : r.lwAccount = l)
    IN  {[lwAccount |-> l] @@ Coverage(Group(l)) :
           l \in {recs[i].lwAccount : i \in 1..Len(recs)}}

\* lines 1572-1577: query 'lwaccount'
ComplianceLwaccount(table) == {table[i].lwAccount : i \in 1..Len(table)}

\* lines 1327-1578: the queries of ComplianceQueries, by name
ComplianceQueries(table) ==
    [report |-> ComplianceReport(table),
     account_coverage |-> ComplianceAccountCoverage(table),
     total_summary |-> ComplianceTotalSummary(table),
     lwaccount_summary |-> ComplianceLwaccountSummary(table),
     lwaccount |-> ComplianceLwaccount(table)]

CqInit ==
    /\ cqTable \in ComplianceTables
    /\ cqResults = NoResults

\* lines 430-451: sqlite_queries(ComplianceQueries, db_table, db_connection)
\* runs every query on the table and returns the dict of their rows
SqliteQueriesCompliance ==
    /\ cqResults = NoResults
    /\ cqResults' = ComplianceQueries(cqTable)
    /\ UNCHANGED cqTable
    /\ UNCHANGED exceptCq

-----------------------------------------------------------------------------
(* The per-instance score of VulnerabilityQueries (lines 1597-1613)          *)

MaxCount == 11         \* findings of one severity on one instance

\* vsScore is <<>> until the score is computed, then <<score>>
VsIdle ==
    /\ vsCounts = [critical |-> 0, high |-> 0, medium |-> 0, low |-> 0, info |-> 0]
    /\ vsScore = <<>>

\* faulty variant: the high bucket is looked at before the critical one
InstanceScore_HighFirst(k) ==
    IF k.high > 10 THEN Num(40)
    ELSE IF k.high > 5 THEN Num(45)
    ELSE IF k.high > 0 THEN Num(49)
    ELSE IF k.critical > 10 THEN Num(0)
    ELSE IF k.critical > 5 THEN Num(5)
    ELSE IF k.critical > 0 THEN Num(9)
    ELSE IF k.medium > 10 THEN Num(60)
    ELSE IF k.medium > 5 THEN Num(65)
    ELSE IF k.medium > 0 THEN Num(69)
    ELSE IF k.low > 10 THEN Num(70)
    ELSE IF k.low > 5 THEN Num(75)
    ELSE IF k.low > 0 THEN Num(79)
    ELSE IF k.info > 10 THEN Num(95)
    ELSE IF k.info > 5 THEN Num(90)
    ELSE IF k.info = 0 THEN Num(100)
    ELSE SqlNull

\* lines 1597-1613: the CASE that gives total_coverage of an instance from
\* its totals k; the first WHEN that holds decides, and a CASE without ELSE
\* is NULL when none holds
InstanceScore(k) ==
    IF k.critical > 10 THEN Num(0)
    ELSE IF k.critical > 5 THEN Num(5)
    ELSE IF k.critical > 0 THEN Num(9)
    ELSE IF k.high > 10 THEN Num(40)
    ELSE IF k.high > 5 THEN Num(45)
    ELSE IF k.high > 0 THEN Num(49)
    ELSE IF k.medium > 10 THEN Num(60)
    ELSE IF k.medium > 5 THEN Num(65)
    ELSE IF k.medium > 0 THEN Num(69)
    ELSE IF k.low > 10 THEN Num(70)
    ELSE IF k.low > 5 THEN Num(75)
    ELSE IF k.low > 0 THEN Num(79)
    ELSE IF k.info > 10 THEN Num(95)
    ELSE IF k.info > 5 THEN Num(90)
    ELSE IF k.info = 0 THEN Num(100)
    ELSE SqlNull

VsInit ==
    /\ vsCounts \in [critical : 0..MaxCount, high : 0..MaxCount,
                     medium : 0..MaxCount, low : 0..MaxCount,
                     info : 0..MaxCount]
    /\ vsScore = <<>>

\* the report query evaluates the CASE for an instance
VulnScore ==
    /\ vsScore = <<>>
    /\ vsScore' = <<InstanceScore(vsCounts)>>
    /\ UNCHANGED vsCounts
    /\ UNCHANGED exceptVs

-----------------------------------------------------------------------------
(* sqlite_queries with VulnerabilityQueries (lines 430-451, 1580-2292)       *)

MaxFindings == 2       \* finding rows stored in the table

VqIdle ==
    /\ vqTable = <<>>
    /\ vqMachines = {}
    /\ vqResults = NoResults

\* the instances findings are reported for, and the cloud account of each
InstanceAccount == [i \in {"i-1", "i-2", "i-3"} |->
                      IF i = "i-3" THEN "aws:2" ELSE "aws:1"]

\* one row of the findings table: the tenant and account it was fetched
\* for, machineTags.InstanceId, vulnId and severity
Findings ==
    {[lwAccount |-> LwAccountOf[InstanceAccount[i]],
      accountId |-> InstanceAccount[i],
      instanceId |-> i, vulnId |-> v, severity |-> s] :
        i \in DOMAIN InstanceAccount, v \in {"CVE-1", "CVE-2"},
        s \in {"Critical", "High", "Info"}}

\* a row of table machines (lines 627-637): an agent reports the instance
Machine(i) == [lwAccount |-> LwAccountOf[InstanceAccount[i]],
               accountId |-> InstanceAccount[i], tag_instanceId |-> i]

\* SUM(x) over nullable terms: NULL terms are skipped, NULL when none is left
SqlSumNullable(s) ==
    LET present == SelectSeq(s, LAMBDA x : ~IsNull(x))
    IN  SqlSum(MapSeq(present, ValueOf))

\* x * y and x + y with nullable y
SqlTimes(n, y) == IF IsNull(y) THEN SqlNull ELSE Num(n * ValueOf(y))
SqlPlus(n, y) == IF IsNull(y) THEN SqlNull ELSE Num(n + ValueOf(y))

\* faulty variant: every row counts as a finding of its own
VulnT2_EveryRow(table, machines, ord) ==
    LET ids == {m.tag_instanceId : m \in machines}
        kept == {i \in 1..Len(table) : table[i].instanceId \in ids}
        First(P) == CHOOSE i \in P : \A j \in P : ord[i] <= ord[j]
        SameInstance(i) ==
            {j \in kept : table[j].instanceId = table[i].instanceId}
        Is(i, s) == IF table[i].severity = s THEN 1 ELSE 0
        Row(i) == [lwAccount |-> table[i].lwAccount,
                   accountId |-> table[i].accountId,
                   instanceId |-> table[i].instanceId,
                   vulnId |-> table[i].vulnId,
                   severity |-> table[i].severity,
                   _vulncount |-> 1,
                   _instcount |-> IF i = First(SameInstance(i)) THEN 1 ELSE 0,
                   critical |-> Is(i, "Critical"),
                   high |-> Is(i, "High"),
                   medium |-> Is(i, "Medium"),
                   low |-> Is(i, "Low"),
                   info |-> Is(i, "Info")]
    IN  MapSeq(SelectSeq([i \in 1..Len(table) |-> i], LAMBDA i : i \in kept),
               Row)

\* lines 1632-1714: the inner select t2.  Rows whose instance is not in
\* machines are left out; ROW_NUMBER() = 1 marks one row of each partition,
\* the one the engine meets first: ord[i] is the place of row i in the order
\* in which the engine numbers the rows.
VulnT2(table, machines, ord) ==
    LET ids == {m.tag_instanceId : m \in machines}
        kept == {i \in 1..Len(table) : table[i].instanceId \in ids}
        First(P) == CHOOSE i \in P : \A j \in P : ord[i] <= ord[j]
        SameInstance(i) ==
            {j \in kept : table[j].instanceId = table[i].instanceId}
        SameVuln(i) == {j \in SameInstance(i) : table[j].vulnId = table[i].vulnId}
        Is(i, s) == IF table[i].severity = s THEN 1 ELSE 0
        Row(i) == [lwAccount |-> table[i].lwAccount,
                   accountId |-> table[i].accountId,
                   instanceId |-> table[i].instanceId,
                   vulnId |-> table[i].vulnId,
                   severity |-> table[i].severity,
                   _vulncount |-> IF i = First(SameVuln(i)) THEN 1 ELSE 0,
                   _instcount |-> IF i = First(SameInstance(i)) THEN 1 ELSE 0,
                   critical |-> Is(i, "Critical"),
                   high |-> Is(i, "High"),
                   medium |-> Is(i, "Medium"),
                   low |-> Is(i, "Low"),
                   info |-> Is(i, "Info")]
    IN  MapSeq(SelectSeq([i \in 1..Len(table) |-> i], LAMBDA i : i \in kept),
               Row)

\* lines 1582-1631 (and 1772-1821): the select over t2 with the windowed
\* sums PARTITION BY instanceId and the score
VulnT3(t2) ==
    LET Part(r) == SelectSeq(t2, LAMBDA x : x.instanceId = r.instanceId)
        Totals(r) ==
            [critical |-> SumSeq(MapSeq(Part(r), LAMBDA x : x.critical * x._vulncount)),
             high |-> SumSeq(MapSeq(Part(r), LAMBDA x : x.high * x._vulncount)),
             medium |-> SumSeq(MapSeq(Part(r), LAMBDA x : x.medium * x._vulncount)),
             low |-> SumSeq(MapSeq(Part(r), LAMBDA x : x.low * x._vulncount)),
             info |-> SumSeq(MapSeq(Part(r), LAMBDA x : x.info * x._vulncount))]
        Row(r) == [lwAccount |-> r.lwAccount,
                   accountId |-> r.accountId,
                   instanceId |-> r.instanceId,
                   vulnId |-> r.vulnId,
                   severity |-> r.severity,
                   _instcount |-> r._instcount,
                   total_violation_count |->
                       SumSeq(MapSeq(Part(r), LAMBDA x : x._vulncount)),
                   total_critical |-> Totals(r).critical,
                   total_high |-> Totals(r).high,
                   total_medium |-> Totals(r).medium,
                   total_low |-> Totals(r).low,
                   total_info |-> Totals(r).info,
                   total_coverage |-> InstanceScore(Totals(r))]
    IN  MapSeq(t2, Row)

\* lines 1581-1719: query 'report', the rows of t3 without _instcount (in
\* the order of the table)
VulnerabilityReport(t3) ==
    MapSeq(t3, LAMBDA r :
        [lwAccount |-> r.lwAccount, accountId |-> r.accountId,
         instanceId |-> r.instanceId, vulnId |-> r.vulnId,
         severity |-> r.severity,
         total_violation_count |-> r.total_violation_count,
         total_critical |-> r.total_critical, total_high |-> r.total_high,
         total_medium |-> r.total_medium, total_low |-> r.total_low,
         total_info |-> r.total_info, total_coverage |-> r.total_coverage])

\* lines 1724-1729: the subquery COUNT(DISTINCT TAG_INSTANCEID) FROM machines
\* of one (lwAccount, accountId)
TotalAssets(machines, lw, acc) ==
    Cardinality({m.tag_instanceId :
                   m \in {x \in machines : x.lwAccount = lw /\ x.accountId = acc}})

\* lines 1720-1755: the aggregate columns of one group g of t3 rows
VulnAccountRow(g, machines, lw, acc) ==
    LET assets == TotalAssets(machines, lw, acc)
        inViolation == Cardinality({g[i].instanceId : i \in 1..Len(g)})
        scores == SqlSumNullable(MapSeq(g, LAMBDA r :
                      SqlTimes(r._instcount, r.total_coverage)))
        numerator == SqlPlus((assets - inViolation) * 100, scores)
    IN  [lwAccount |-> lw,
         accountId |-> acc,
         total_assets_in_violation |-> inViolation,
         total_assets |-> assets,
         critical |-> SumSeq(MapSeq(g, LAMBDA r : r._instcount * r.total_critical)),
         high |-> SumSeq(MapSeq(g, LAMBDA r : r._instcount * r.total_high)),
         medium |-> SumSeq(MapSeq(g, LAMBDA r : r._instcount * r.total_medium)),
         low |-> SumSeq(MapSeq(g, LAMBDA r : r._instcount * r.total_low)),
         info |-> SumSeq(MapSeq(g, LAMBDA r : r._instcount * r.total_info)),
         total_violation_count |->
             SumSeq(MapSeq(g, LAMBDA r : r._instcount * r.total_violation_count)),
         total_coverage |->
             IF IsNull(numerator) \/ assets = 0 THEN SqlNull
             ELSE Num(CastInteger(ValueOf(numerator), assets))]

\* lines 1720-1898: query 'account_coverage', one row per
\* (lwAccount, accountId) of t3, in the order of the grouping key
VulnerabilityAccountCoverage(t3, machines) ==
    LET Group(a) == SelectSeq(t3, LAMBDA r : r.accountId = a)
    IN  MapSeq(SelectSeq(AccountOrder, LAMBDA a : Group(a) # <<>>),
               LAMBDA a : VulnAccountRow(Group(a), machines, LwAccountOf[a], a))

\* lines 1900-1911 (and 2093-2104): the aggregate columns over the
\* account_coverage rows t4 of one group
VulnSummary(t4) ==
    LET coverages == SelectSeq(MapSeq(t4, LAMBDA r : r.total_coverage),
                               LAMBDA x : ~IsNull(x))
    IN  [total_accounts |-> Cardinality({t4[i].accountId : i \in 1..Len(t4)}),
         total_assets_in_violation |->
             SqlSum(MapSeq(t4, LAMBDA r : r.total_assets_in_violation)),
         total_assets |-> SqlSum(MapSeq(t4, LAMBDA r : r.total_assets)),
         critical |-> SqlSum(MapSeq(t4, LAMBDA r : r.critical)),
         high |-> SqlSum(MapSeq(t4, LAMBDA r : r.high)),
         medium |-> SqlSum(MapSeq(t4, LAMBDA r : r.medium)),
         low |-> SqlSum(MapSeq(t4, LAMBDA r : r.low)),
         info |-> SqlSum(MapSeq(t4, LAMBDA r : r.info)),
         total_violation_count |->
             SqlSum(MapSeq(t4, LAMBDA r : r.total_violation_count)),
         \* CAST(AVG(total_coverage) AS INTEGER): NULLs are skipped
         total_coverage |->
             IF coverages = <<>> THEN SqlNull
             ELSE Num(CastInteger(SumSeq(MapSeq(coverages, ValueOf)),
                                  Len(coverages)))]

\* lines 1899-2091: query 'total_summary', the single row of an aggregate
\* without GROUP BY
VulnerabilityTotalSummary(t4) == <<[lwAccount |-> "Any"] @@ VulnSummary(t4)>>

\* lines 2092-2286: query 'lwaccount_summary', one row per lwAccount
VulnerabilityLwaccountSummary(t4) ==
    {[lwAccount |-> l] @@ VulnSummary(SelectSeq(t4, LAMBDA r : r.lwAccount = l)) :
       l \in {t4[i].lwAccount : i \in 1..Len(t4)}}

\* lines 2287-2292: query 'lwaccount'
VulnerabilityLwaccount(table) == {table[i].lwAccount : i \in 1..Len(table)}

\* lines 1580-2292: the queries of VulnerabilityQueries, by name
VulnerabilityQueries(table, machines, ord) ==
    LET t3 == VulnT3(VulnT2(table, machines, ord))
        t4 == VulnerabilityAccountCoverage(t3, machines)
    IN  [report |-> VulnerabilityReport(t3),
         account_coverage |-> t4,
         total_summary |-> VulnerabilityTotalSummary(t4),
         lwaccount_summary |-> VulnerabilityLwaccountSummary(t4),
         lwaccount |-> VulnerabilityLwaccount(table)]

VqInit ==
    /\ vqTable \in SeqsUpTo(Findings, MaxFindings)
    /\ vqMachines \in {{Machine(i) : i \in S} : S \in SUBSET DOMAIN InstanceAccount}
    /\ vqResults = NoResults

\* lines 430-451: sqlite_queries(VulnerabilityQueries, db_table,
\* db_connection) runs every query on the table and returns the dict of
\* their rows; the engine numbers the rows of a partition in an order of its
\* choosing
SqliteQueriesVulnerability ==
    /\ vqResults = NoResults
    /\ \E ord \in Permutations(1..Len(vqTable)) :
         vqResults' = VulnerabilityQueries(vqTable, vqMachines, ord)
    /\ UNCHANGED <<vqTable, vqMachines>>
    /\ UNCHANGED exceptVq

-----------------------------------------------------------------------------
(* report_callback and get_reports (lines 102-113)                           *)

MaxCallbacks == 2      \* completed futures whose callback runs
MaxResultLen == 2      \* rows of one future's result

\* row k of the result of future t
ResultRow(t, k) == [future |-> t, row |-> k]

\* future.result(): None, or a list of rows
FutureResults(t) ==
    {[none |-> TRUE, rows |-> <<>>]}
    \cup {[none |-> FALSE, rows |-> [k \in 1..n |-> ResultRow(t, k)]] :
            n \in 0..MaxResultLen}

RcIdle ==
    /\ rcFutures = <<>>
    /\ rcPc = <<>>
    /\ rcLocal = <<>>
    /\ reports = <<>>
    /\ rcReturned = <<>>

\* ReportHelper() (lines 103-105) and the futures whose callbacks will run
RcInit ==
    /\ rcFutures \in {f \in [1..MaxCallbacks -> UNION {FutureResults(t) : t \in 1..MaxCallbacks}] :
                        \A t \in 1..MaxCallbacks : f[t] \in FutureResults(t)}
    /\ rcPc = [t \in 1..MaxCallbacks |-> "called"]
    /\ rcLocal = [t \in 1..MaxCallbacks |-> <<>>]
    /\ reports = <<>>
    /\ rcReturned = <<>>

\* lines 108-110, first half: report = future.result(); if it is not None,
\* the right-hand side of the assignment reads self.reports
ReportCallbackLoad ==
    /\ \E t \in DOMAIN rcFutures :
        /\ rcPc[t] = "called"
        /\ IF rcFutures[t].none
           THEN /\ rcPc' = [rcPc EXCEPT ![t] = "done"]
                /\ UNCHANGED rcLocal
           ELSE /\ rcLocal' = [rcLocal EXCEPT ![t] = reports]
                /\ rcPc' = [rcPc EXCEPT ![t] = "loaded"]
    /\ UNCHANGED <<rcFutures, reports, rcReturned>>
    /\ UNCHANGED exceptRc

\* line 110, second half: self.reports = <the value read> + report
ReportCallbackStore ==
    /\ \E t \in DOMAIN rcFutures :
        /\ rcPc[t] = "loaded"
        /\ reports' = rcLocal[t] \o rcFutures[t].rows
        /\ rcPc' = [rcPc EXCEPT ![t] = "done"]
    /\ UNCHANGED <<rcFutures, rcLocal, rcReturned>>
    /\ UNCHANGED exceptRc

\* get_reports (lines 112-113), called after every callback has run
GetReports ==
    /\ rcFutures # <<>>
    /\ \A t \in DOMAIN rcFutures : rcPc[t] = "done"
    /\ rcReturned = <<>>
    /\ rcReturned' = <<reports>>
    /\ UNCHANGED <<rcFutures, rcPc, rcLocal, reports>>
    /\ UNCHANGED exceptRc

-----------------------------------------------------------------------------
(* The discovery queries: get_discovered_cloud_accounts (lines 664-773),     *)
(* get_active_cloud_accounts (776-840), get_active_machines (577-661),       *)
(* get_discovered_machines (842-1003)                                        *)

MaxRemote == 2         \* instances the platform knows during one call

\* the instances the platform may know: the tags of an agent machine
\* (LW_HE_MACHINES m.TAGS) and the configuration of the same instance
\* (ACCOUNT_ID, ORGANIZATION, the project named in the URN).  The Azure
\* subscription id is reported once in lower and once in upper case.
AllInstances ==
    << [VmProvider |-> "AWS", Account |-> <<"1", "1">>, ProjectId |-> <<>>,
        Organization |-> <<>>],
       [VmProvider |-> "GCE", Account |-> <<>>, ProjectId |-> Project1,
        Organization |-> OrgDeclared],
       [VmProvider |-> "Azure", Account |-> <<>>, ProjectId |-> SubLower,
        Organization |-> <<>>],
       [VmProvider |-> "Azure", Account |-> <<>>, ProjectId |-> SubUpper,
        Organization |-> <<>>] >>

\* the tag value m.TAGS:VmProvider of each provider prefix
VmProviderOf(csp) ==
    IF csp = sAws THEN "AWS" ELSE IF csp = sGcp THEN "GCE" ELSE "Azure"

\* the queries each multi-query method issues, in order
DcProviders(op) ==
    IF op = "get_discovered_cloud_accounts" THEN <<sAws, sGcp>>
    ELSE <<sAws, sGcp, sAz>>

\* lines 793-802: the accountId expression of get_active_cloud_accounts
ActiveAccountId(csp, m) ==
    IF csp = sAws THEN sAws \o <<Colon>> \o m.Account
    ELSE IF csp = sGcp THEN sGcp \o <<Colon>> \o m.ProjectId
    ELSE sAz \o <<Colon>> \o m.ProjectId

\* lines 686 and 726-747 (again 878 and 944-965): the accountId expression
\* of the configuration queries; the nested SUBSTRING is evaluated by the
\* platform and yields the project named in the URN
DiscoveredAccountId(csp, m) ==
    IF csp = sAws THEN sAws \o <<Colon>> \o m.Account
    ELSE sGcp \o <<Colon>> \o m.Organization \o <<Colon>> \o m.ProjectId

\* lines 598-618: the accountId expression of get_active_machines
ActiveMachineAccountId(details, m) ==
    IF details[1] = sAws THEN sAws \o <<Colon>> \o m.Account
    ELSE IF details[1] = sGcp
        THEN sGcp \o <<Colon>> \o details[2] \o <<Colon>> \o m.ProjectId
    ELSE sAz \o <<Colon>> \o details[2] \o <<Colon>> \o m.ProjectId

\* lines 598-618: the filter of get_active_machines
ActiveMachineFilter(details, m) ==
    /\ m.VmProvider = VmProviderOf(details[1])
    /\ IF details[1] = sAws THEN m.Account = details[2]
       ELSE m.ProjectId = details[3]

\* lines 864-927: the filter of get_discovered_machines
DiscoveredMachineFilter(details, m) ==
    /\ m.VmProvider = VmProviderOf(details[1])
    /\ IF details[1] = sAws THEN m.Account = details[2]
       ELSE m.Organization = details[2] /\ m.ProjectId = details[3]

RECURSIVE SelectFrom(_, _, _)
\* the rows of `world` (indices into AllInstances, ascending) that satisfy
\* keep, in the order of AllInstances
SelectFrom(world, keep, i) ==
    IF i > Len(AllInstances) THEN <<>>
    ELSE IF i \in world /\ keep[i]
        THEN <<AllInstances[i]>> \o SelectFrom(world, keep, i + 1)
    ELSE SelectFrom(world, keep, i + 1)

\* the rows one query of a multi-query method returns
AccountRows(op, csp, lwAccount, world) ==
    LET ms == SelectFrom(world,
                  [i \in 1..Len(AllInstances) |->
                      AllInstances[i].VmProvider = VmProviderOf(csp)], 1)
    IN  [k \in 1..Len(ms) |->
            [lwAccount |-> lwAccount,
             accountId |-> IF op = "get_active_cloud_accounts"
                           THEN ActiveAccountId(csp, ms[k])
                           ELSE DiscoveredAccountId(csp, ms[k])]]

\* the rows the query of get_active_machines / get_discovered_machines
\* returns
MachineRows(op, details, lwAccount, world) ==
    LET ms == SelectFrom(world,
                  [i \in 1..Len(AllInstances) |->
                      IF op = "get_active_machines"
                      THEN ActiveMachineFilter(details, AllInstances[i])
                      ELSE DiscoveredMachineFilter(details, AllInstances[i])], 1)
    IN  [k \in 1..Len(ms) |->
            [lwAccount |-> lwAccount,
             accountId |-> IF op = "get_active_machines"
                           THEN ActiveMachineAccountId(details, ms[k])
                           ELSE DiscoveredAccountId(details[1], ms[k])]]

\* what the platform may know during a call
Worlds == {w \in SUBSET (1..Len(AllInstances)) : Cardinality(w) <= MaxRemote}

NoArgs == [op |-> "none", lwAccount |-> "tenant-a", cloud_account |-> <<>>,
           ignore_errors |-> TRUE]

DcIdle ==
    /\ dcPc = "done"
    /\ dcArgs = NoArgs
    /\ dcWorld = {}
    /\ dcIssued = <<>>
    /\ dcResults = <<>>

DcInit ==
    /\ dcPc = "idle"
    /\ dcArgs = NoArgs
    /\ dcWorld = {}
    /\ dcIssued = <<>>
    /\ dcResults = <<>>

\* one issued query and its answer
Issued(csp, ok, rows) == [csp |-> csp, ok |-> ok, rows |-> rows]

\* lines 675-680 / 787-791: a call of one of the multi-query methods starts
DiscoveryCall ==
    /\ dcPc = "idle"
    /\ \E op \in {"get_discovered_cloud_accounts", "get_active_cloud_accounts"},
          lwAccount \in {"tenant-a", "tenant-b"}, ignore_errors \in BOOLEAN,
          world \in Worlds :
        /\ dcArgs' = [op |-> op, lwAccount |-> lwAccount, cloud_account |-> <<>>,
                      ignore_errors |-> ignore_errors]
        /\ dcWorld' = world
    /\ dcPc' = "query"
    /\ dcResults' = <<>>
    /\ dcIssued' = <<>>
    /\ UNCHANGED exceptDc

\* faulty variant: the except clause ends the method with what it has
DiscoveryQuery_StopOnError ==
    /\ dcPc = "query"
    /\ Len(dcIssued) < Len(DcProviders(dcArgs.op))
    /\ \E apiOk \in BOOLEAN :
        LET csp == DcProviders(dcArgs.op)[Len(dcIssued) + 1]
            result == AccountRows(dcArgs.op, csp, dcArgs.lwAccount, dcWorld)
        IN  IF apiOk
            THEN /\ dcResults' = dcResults \o result
                 /\ dcIssued' = Append(dcIssued, Issued(csp, TRUE, result))
                 /\ dcPc' = "query"
            ELSE /\ dcIssued' = Append(dcIssued, Issued(csp, FALSE, <<>>))
                 /\ dcPc' = IF dcArgs.ignore_errors THEN "returned" ELSE "ApiError"
                 /\ UNCHANGED dcResults
    /\ UNCHANGED <<dcArgs, dcWorld>>
    /\ UNCHANGED exceptDc

\* lines 691-710, 752-771 / 818-838: the next query of the method inside its
\* try/except
DiscoveryQuery ==
    /\ dcPc = "query"
    /\ Len(dcIssued) < Len(DcProviders(dcArgs.op))
    /\ \E apiOk \in BOOLEAN :
        LET csp == DcProviders(dcArgs.op)[Len(dcIssued) + 1]
            result == AccountRows(dcArgs.op, csp, dcArgs.lwAccount, dcWorld)
        IN  IF apiOk
            THEN /\ dcResults' = dcResults \o result
                 /\ dcIssued' = Append(dcIssued, Issued(csp, TRUE, result))
                 /\ dcPc' = "query"
            ELSE /\ dcIssued' = Append(dcIssued, Issued(csp, FALSE, <<>>))
                 /\ dcPc' = IF dcArgs.ignore_errors THEN "query" ELSE "ApiError"
                 /\ UNCHANGED dcResults
    /\ UNCHANGED <<dcArgs, dcWorld>>
    /\ UNCHANGED exceptDc

\* lines 773 / 840: return results
DiscoveryReturn ==
    /\ dcPc = "query"
    /\ Len(dcIssued) = Len(DcProviders(dcArgs.op))
    /\ dcPc' = "returned"
    /\ UNCHANGED <<dcArgs, dcWorld, dcIssued, dcResults>>
    /\ UNCHANGED exceptDc

\* lines 640-661 / 982-1003: the single query of a per-account method
MachineQuery(args, details, world, apiOk) ==
    LET result == MachineRows(args.op, details, args.lwAccount, world)
    IN  IF apiOk
        THEN /\ dcIssued' = <<Issued(details[1], TRUE, result)>>
             /\ dcResults' = result
             /\ dcPc' = "returned"
        ELSE /\ dcIssued' = <<Issued(details[1], FALSE, <<>>)>>
             /\ dcResults' = <<>>
             /\ dcPc' = IF args.ignore_errors THEN "returned" ELSE "ApiError"

\* the call ends before any query is issued
MachineQueryNotIssued(pc) ==
    /\ dcIssued' = <<>>
    /\ dcResults' = <<>>
    /\ dcPc' = pc

\* one call of get_active_machines (lines 577-661)
GetActiveMachines ==
    /\ dcPc = "idle"
    /\ \E lwAccount \in {"tenant-a", "tenant-b"}, cloud_account \in CloudAccountArgs,
          ignore_errors \in BOOLEAN, world \in Worlds, apiOk \in BOOLEAN :
        LET args == [op |-> "get_active_machines", lwAccount |-> lwAccount,
                     cloud_account |-> cloud_account,
                     ignore_errors |-> ignore_errors]
            cloud_account_details == Split(cloud_account)
            csp == cloud_account_details[1]
            n == Len(cloud_account_details)
        IN  /\ dcArgs' = args
            /\ dcWorld' = world
            /\ IF csp = sAws THEN
                   IF n # 2 THEN MachineQueryNotIssued("ValueError")
                   ELSE MachineQuery(args, cloud_account_details, world, apiOk)
               ELSE IF csp \in {sGcp, sAz} THEN
                   IF n # 3 THEN MachineQueryNotIssued("ValueError")
                   ELSE MachineQuery(args, cloud_account_details, world, apiOk)
               ELSE MachineQueryNotIssued("UnboundLocalError")
    /\ UNCHANGED exceptDc

\* one call of get_discovered_machines (lines 842-1003)
GetDiscoveredMachines ==
    /\ dcPc = "idle"
    /\ \E lwAccount \in {"tenant-a", "tenant-b"}, cloud_account \in CloudAccountArgs,
          ignore_errors \in BOOLEAN, world \in Worlds, apiOk \in BOOLEAN :
        LET args == [op |-> "get_discovered_machines", lwAccount |-> lwAccount,
                     cloud_account |-> cloud_account,
                     ignore_errors |-> ignore_errors]
            cloud_account_details == Split(cloud_account)
            csp == cloud_account_details[1]
            n == Len(cloud_account_details)
        IN  /\ dcArgs' = args
            /\ dcWorld' = world
            /\ IF csp = sAws THEN
                   IF n # 2 THEN MachineQueryNotIssued("ValueError")
                   ELSE MachineQuery(args, cloud_account_details, world, apiOk)
               ELSE IF csp = sGcp THEN
                   IF n # 3 THEN MachineQueryNotIssued("ValueError")
                   ELSE MachineQuery(args, cloud_account_details, world, apiOk)
               ELSE MachineQueryNotIssued("returned")
    /\ UNCHANGED exceptDc

-----------------------------------------------------------------------------
(* sqlite_queries with AgentQueries (lines 430-451, 1207-1325)               *)

MaxInstances == 2      \* discovered instances stored in the table

sRunning == <<"r", "u", "n", "n", "i", "n", "g">>
sRunningUpper == <<"R", "U", "N", "N", "I", "N", "G">>
sStopped == <<"s", "t", "o", "p", "p", "e", "d">>

\* one character of SQLite LOWER()
CharLower(c) ==
    CASE c = "R" -> "r"
      [] c = "U" -> "u"
      [] c = "N" -> "n"
      [] c = "I" -> "i"
      [] c = "G" -> "g"
      [] OTHER -> c

\* LOWER(STATE)
SqlLower(s) == [i \in 1..Len(s) |-> CharLower(s[i])]

\* the rows get_discovered_machines stores: an instance of an account in a
\* state as the provider reports it
DiscoveredInstances ==
    [accountId : {AccountOrder[i] : i \in 1..Len(AccountOrder)},
     instanceId : {"i-1", "i-2"},
     state : {sRunning, sRunningUpper, sStopped}]

\* the rows get_active_machines stores: distinct rows, so one instance has
\* two rows when two agent tokens reported it
AgentMachines ==
    {[tag_instanceId |-> "i-1", lwTokenShort |-> "k1"],
     [tag_instanceId |-> "i-1", lwTokenShort |-> "k2"],
     [tag_instanceId |-> "i-2", lwTokenShort |-> "k1"]}

\* (SELECT COUNT(*) FROM machines AS m WHERE m.TAG_INSTANCEID = dm.INSTANCEID)
HasAgent(machines, instanceId) ==
    Cardinality({m \in machines : m.tag_instanceId = instanceId})

\* faulty variant: the state is compared as stored
AgentT_StateAsStored(table, machines) ==
    [i \in 1..Len(table) |->
        [lwAccount |-> LwAccountOf[table[i].accountId],
         accountId |-> table[i].accountId,
         InstanceId |-> table[i].instanceId,
         state |-> table[i].state,
         has_agent |-> HasAgent(machines, table[i].instanceId)]]

\* lines 1233-1243 (repeated inside every query): the inner select t
AgentT(table, machines) ==
    [i \in 1..Len(table) |->
        [lwAccount |-> LwAccountOf[table[i].accountId],
         accountId |-> table[i].accountId,
         InstanceId |-> table[i].instanceId,
         state |-> SqlLower(table[i].state),
         has_agent |-> HasAgent(machines, table[i].instanceId)]]

\* WHERE STATE = 'running' on the rows of t
AgentRunning(t) == SelectSeq(t, LAMBDA r : r.state = sRunning)

\* SUM(HAS_AGENT), COUNT(*), SUM(HAS_AGENT)*100/COUNT(*) over the rows g
AgentTotals(g) ==
    LET installed == SqlSum(MapSeq(g, LAMBDA r : r.has_agent))
    IN  [total_installed |-> installed,
         total |-> Len(g),
         total_coverage |-> IF IsNull(installed) THEN SqlNull
                            ELSE SqlDiv(ValueOf(installed) * 100, Len(g))]

\* COUNT(DISTINCT ACCOUNTID), COUNT(*)-SUM(HAS_AGENT) of the summaries
AgentSummary(g) ==
    [total_accounts |-> Cardinality({g[i].accountId : i \in 1..Len(g)}),
     total_not_installed |-> SqlMinus(Len(g), AgentTotals(g).total_installed)]
    @@ AgentTotals(g)

\* lines 1224-1253: query 'account_coverage', one row per group
AgentAccountCoverage(t) ==
    LET Group(a) == SelectSeq(AgentRunning(t), LAMBDA r : r.accountId = a)
    IN  MapSeq(SelectSeq(AccountOrder, LAMBDA a : Group(a) # <<>>),
               LAMBDA a : [lwAccount |-> LwAccountOf[a], accountId |-> a]
                          @@ AgentTotals(Group(a)))

\* lines 1254-1278: query 'total_summary', the single row of an aggregate
\* without GROUP BY
AgentTotalSummary(t) == <<[lwAccount |-> "Any"] @@ AgentSummary(AgentRunning(t))>>

\* lines 1279-1305: query 'lwaccount_summary', one row per lwAccount
AgentLwaccountSummary(t) ==
    LET running == AgentRunning(t)
    IN  {[lwAccount |-> l]
            @@ AgentSummary(SelectSeq(running, LAMBDA r : r.lwAccount = l)) :
         l \in {running[i].lwAccount : i \in 1..Len(running)}}

\* lines 1207-1325: the queries of AgentQueries, by name
AgentQueries(table, machines) ==
    LET t == AgentT(table, machines)
    IN  [report |-> t,
         account_coverage |-> AgentAccountCoverage(t),
         total_summary |-> AgentTotalSummary(t),
         lwaccount_summary |-> AgentLwaccountSummary(t),
         lwaccount |-> {t[i].lwAccount : i \in 1..Len(t)}]

AqIdle ==
    /\ aqTable = <<>>
    /\ aqMachines = {}
    /\ aqResults = NoResults

AqInit ==
    /\ aqTable \in SeqsUpTo(DiscoveredInstances, MaxInstances)
    /\ aqMachines \in SUBSET AgentMachines
    /\ aqResults = NoResults

\* lines 430-451: sqlite_queries(AgentQueries, db_table, db_connection) runs
\* every query on the table and returns the dict of their rows
SqliteQueriesAgent ==
    /\ aqResults = NoResults
    /\ aqResults' = AgentQueries(aqTable, aqMachines)
    /\ UNCHANGED <<aqTable, aqMachines>>
    /\ UNCHANGED exceptAq

-----------------------------------------------------------------------------
(* get_vulnerability_report (lines 1005-1204) called for one account after   *)
(* the other, with get_compliance_report                                     *)

MaxVulnRows == 2       \* rows one vulnerability query returns

\* the accounts A1..An the caller asks reports for, one call each, with the
\* tenant of each call: two accounts of two tenants, the first account
\* again under the other tenant, and an id with a missing segment
ReportRun ==
    << [lwAccount |-> "tenant-a", cloud_account |-> AwsAccountId(<<"1", "1">>)],
       [lwAccount |-> "tenant-b", cloud_account |-> GcpAccountId(OrgDeclared, Project1)],
       [lwAccount |-> "tenant-a", cloud_account |-> sGcp \o <<Colon>> \o Project1],
       [lwAccount |-> "tenant-b", cloud_account |-> AwsAccountId(<<"1", "1">>)] >>

\* the arguments of the next vulnerability call
VrArgSets ==
    [lwAccount : {ReportRun[vrCalls + 1].lwAccount},
     cloud_account : {ReportRun[vrCalls + 1].cloud_account},
     ignore_errors : BOOLEAN,
     use_sqlite : BOOLEAN]

\* a row obtained by a call: `call` is history (the arguments of the call
\* that obtained it), accountId and lwAccount are its two columns, each
\* NULL ({}) or a value
ObtainedRow(args, accountId, lwAccount) ==
    [call |-> [lwAccount |-> args.lwAccount, cloud_account |-> args.cloud_account],
     accountId |-> accountId,
     lwAccount |-> lwAccount]

\* the table before the first export
NoVulnTable == [exists |-> FALSE, attributed |-> FALSE, rows |-> <<>>]

\* the export collaborator in table mode appends the rows of the query;
\* they carry no accountId / lwAccount
ExportToTable(t, args, n) ==
    IF n = 0 THEN t
    ELSE [exists |-> TRUE,
          attributed |-> t.attributed,
          rows |-> t.rows \o [k \in 1..n |-> ObtainedRow(args, {}, {})]]

\* faulty variant: the UPDATE has no WHERE clause
AttributeTable_EveryRow(t, args) ==
    [exists |-> TRUE,
     attributed |-> TRUE,
     rows |-> [i \in 1..Len(t.rows) |->
                 [t.rows[i] EXCEPT
                     !.accountId = {args.cloud_account},
                     !.lwAccount = {args.lwAccount}]]]

\* lines 1153-1188: ALTER TABLE ... ADD column for the two columns when one
\* is missing, then UPDATE ... SET column = value WHERE column IS NULL
AttributeTable(t, args) ==
    [exists |-> TRUE,
     attributed |-> TRUE,
     rows |-> [i \in 1..Len(t.rows) |->
                 [t.rows[i] EXCEPT
                     !.accountId = IF @ = {} THEN {args.cloud_account} ELSE @,
                     !.lwAccount = IF @ = {} THEN {args.lwAccount} ELSE @]]]

VrIdle ==
    /\ vrPc = "done"
    /\ vrArgs = <<>>
    /\ vrTable = NoVulnTable
    /\ vrRows = <<>>
    /\ vrCalls = 0

VrInit ==
    /\ vrPc = "idle"
    /\ vrArgs = <<>>
    /\ vrTable = NoVulnTable
    /\ vrRows = <<>>
    /\ vrCalls = 0

\* one call of get_vulnerability_report (lines 1005-1204); in memory mode
\* the caller keeps the returned rows
GetVulnerabilityReport ==
    /\ vrPc # "done"
    /\ vrCalls < Len(ReportRun)
    /\ vrCalls' = vrCalls + 1
    /\ \E args \in VrArgSets, apiOk \in BOOLEAN, n \in 0..MaxVulnRows :
        LET cloud_account_details == Split(args.cloud_account)
            csp == cloud_account_details[1]
            segments == Len(cloud_account_details)
        IN  /\ vrArgs' = args
            /\ IF \/ csp = sAws /\ segments # 2
                  \/ csp \in {sGcp, sAz} /\ segments # 3
               THEN /\ vrPc' = "ValueError"
                    /\ UNCHANGED <<vrTable, vrRows>>
               ELSE IF ~apiOk
               THEN /\ vrPc' = IF args.ignore_errors THEN "returned" ELSE "ApiError"
                    /\ UNCHANGED <<vrTable, vrRows>>
               ELSE IF args.use_sqlite
               THEN LET exported == ExportToTable(vrTable, args, n)
                    IN  /\ vrTable' = IF exported.exists
                                      THEN AttributeTable(exported, args)
                                      ELSE exported
                        /\ vrPc' = "returned"
                        /\ UNCHANGED vrRows
               ELSE /\ vrRows' = vrRows \o
                           [k \in 1..n |->
                               ObtainedRow(args, {args.cloud_account}, {args.lwAccount})]
                    /\ vrPc' = "returned"
                    /\ UNCHANGED vrTable
    /\ UNCHANGED exceptVr

\* one call of get_compliance_report (lines 482-574) in the same run; the
\* caller keeps the returned rows
CollectComplianceReport ==
    /\ vrPc # "done"
    /\ vrCalls < Len(ReportRun)
    /\ vrCalls' = vrCalls + 1
    /\ ComplianceReportBody
    /\ crArgs'.lwAccount = ReportRun[vrCalls + 1].lwAccount
    /\ crArgs'.cloud_account = ReportRun[vrCalls + 1].cloud_account
    /\ crArgs'.organization = None
    /\ vrRows' = vrRows \o
          [k \in 1..Len(crResult') |->
              ObtainedRow(crArgs', {crResult'[k].accountId}, {crResult'[k].lwAccount})]
    /\ UNCHANGED <<vrPc, vrArgs, vrTable>>
    /\ UNCHANGED <<caVars, syVars, sdVars, cqVars, vsVars, vqVars, rcVars, dcVars, aqVars>>

-----------------------------------------------------------------------------
(* Specifications                                                            *)

InitAccounts == CaInit /\ CrInit /\ SyInit
    /\ SdInit /\ CqIdle /\ VsIdle /\ VqIdle
    /\ RcIdle
    /\ DcIdle
    /\ AqIdle
    /\ VrIdle

NextAccounts == IntegrationRow \/ TelemetryQuery \/ TelemetryRow \/ CaReturn

SpecAccounts == InitAccounts /\ [][NextAccounts]_vars

InitCompliance == CaIdle /\ CrInit /\ SyInit
    /\ SdInit /\ CqIdle /\ VsIdle /\ VqIdle
    /\ RcIdle
    /\ DcIdle
    /\ AqIdle
    /\ VrIdle

NextCompliance == GetComplianceReport

SpecCompliance == InitCompliance /\ [][NextCompliance]_vars

InitSync == CaIdle /\ CrInit /\ SyInit
    /\ SdInit /\ CqIdle /\ VsIdle /\ VqIdle
    /\ RcIdle
    /\ DcIdle
    /\ AqIdle
    /\ VrIdle

NextSync == SyncBegin \/ SyInsert \/ SyAlter \/ SyRetry \/ SyEndLoop \/ SyQueries

SpecSync == InitSync /\ [][NextSync]_vars

\* sqlite_queries with ComplianceQueries on a stored table
InitComplianceQueries ==
    CaIdle /\ CrInit /\ SyInit /\ SdInit /\ CqInit /\ VsIdle /\ VqIdle
    /\ RcIdle
    /\ DcIdle
    /\ AqIdle
    /\ VrIdle

NextComplianceQueries == SqliteQueriesCompliance

SpecComplianceQueries == InitComplianceQueries /\ [][NextComplianceQueries]_vars

\* the per-instance score of the vulnerability report
InitScore == CaIdle /\ CrInit /\ SyInit /\ SdInit /\ CqIdle /\ VsInit /\ VqIdle
    /\ RcIdle
    /\ DcIdle
    /\ AqIdle
    /\ VrIdle

NextScore == VulnScore

SpecScore == InitScore /\ [][NextScore]_vars

\* sqlite_queries with VulnerabilityQueries on a stored table
InitVulnerabilityQueries ==
    CaIdle /\ CrInit /\ SyInit /\ SdInit /\ CqIdle /\ VsIdle /\ VqInit
    /\ RcIdle
    /\ DcIdle
    /\ AqIdle
    /\ VrIdle

NextVulnerabilityQueries == SqliteQueriesVulnerability

SpecVulnerabilityQueries ==
    InitVulnerabilityQueries /\ [][NextVulnerabilityQueries]_vars

\* the sync store followed by calls of sqlite_drop_table
InitStore == CaIdle /\ CrInit /\ SyInit /\ SdInit /\ CqIdle /\ VsIdle /\ VqIdle
    /\ RcIdle
    /\ DcIdle
    /\ AqIdle
    /\ VrIdle

\* a sync call of the caller that later drops the table, on the persistent
\* database the drop works on
StoreSync == SyncBegin /\ sdHist = <<>> /\ DbPath(syArgs') = "file"

NextStore == StoreSync \/ SyInsert \/ SyAlter \/ SyRetry \/ SyEndLoop
             \/ SyQueries \/ SqliteDropTable

SpecStore == InitStore /\ [][NextStore]_vars

\* the callbacks of completed futures, each on its own thread, then
\* get_reports
InitReports == CaIdle /\ CrInit /\ SyInit /\ SdInit /\ CqIdle /\ VsIdle /\ VqIdle
    /\ RcInit
    /\ DcIdle
    /\ AqIdle
    /\ VrIdle

NextReports == ReportCallbackLoad \/ ReportCallbackStore \/ GetReports

SpecReports == InitReports /\ [][NextReports]_vars

\* one call of a discovery method
InitDiscovery == CaIdle /\ CrInit /\ SyInit /\ SdInit /\ CqIdle /\ VsIdle /\ VqIdle
    /\ RcIdle
    /\ DcInit
    /\ AqIdle
    /\ VrIdle

NextDiscovery == DiscoveryCall \/ DiscoveryQuery \/ DiscoveryReturn
                 \/ GetActiveMachines \/ GetDiscoveredMachines

SpecDiscovery == InitDiscovery /\ [][NextDiscovery]_vars

\* sqlite_queries with AgentQueries on a stored table
InitAgentQueries ==
    CaIdle /\ CrInit /\ SyInit /\ SdInit /\ CqIdle /\ VsIdle /\ VqIdle
    /\ RcIdle
    /\ DcIdle
    /\ AqInit
    /\ VrIdle

NextAgentQueries == SqliteQueriesAgent

SpecAgentQueries == InitAgentQueries /\ [][NextAgentQueries]_vars

\* report calls for one account after the other
InitAttribution ==
    CaIdle /\ CrInit /\ SyInit /\ SdInit /\ CqIdle /\ VsIdle /\ VqIdle
    /\ RcIdle
    /\ DcIdle
    /\ AqIdle
    /\ VrInit

NextAttribution == GetVulnerabilityReport \/ CollectComplianceReport

SpecAttribution == InitAttribution /\ [][NextAttribution]_vars

-----------------------------------------------------------------------------
(* Properties of get_cloud_accounts                                          *)

IsIntegrationType(type) == type \in {"AwsCfg", "GcpCfg", "AzureCfg"}

IsLqlType(type) == type \in {"AwsLql", "GcpLql", "AzureLql"}

\* the provider an account entry belongs to
ProviderOf(type) ==
    CASE type \in {"AwsCfg", "AwsLql"} -> "aws"
      [] type \in {"GcpCfg", "GcpLql"} -> "gcp"
      [] OTHER -> "az"

\* C1: get_cloud_accounts never returns two entries with the same
\* accountId, whatever integration records (also repeated ones) and
\* telemetry rows it iterates.
C1_DistinctAccountIds ==
    \A i, j \in 1..Len(accounts) :
        i # j => accounts[i].accountId # accounts[j].accountId

\* C1 witness: the call returned after iterating the same integration
\* record twice and two telemetry rows, with several accounts emitted.
C1_Witness ==
    /\ caPc = "done"
    /\ Len(caInt) = 2
    /\ caInt[1] = caInt[2]
    /\ IsIntegrationType(caInt[1].type)
    /\ Len(caTel) = 2
    /\ Len(accounts) >= 2

\* the id of the account, project or subscription a telemetry row names,
\* in the form the integration pass records it for the provider
TelemetryTarget(m, type) ==
    IF type = "AwsLql" THEN m.ACCOUNTID
    ELSE IF type = "GcpLql" THEN m.PROJECTID
    ELSE Upper(m.PROJECTID)

\* C2: integration wins over telemetry for every provider: no
\* telemetry-derived entry (AwsLql / GcpLql / AzureLql) is emitted for an
\* account, project or subscription (compared upper-cased for Azure) that
\* an integration-derived entry of the same provider already covers.
C2_IntegrationWins ==
    \A i, j \in 1..Len(accounts) :
        ( /\ IsLqlType(accounts[i].type)
          /\ IsIntegrationType(accounts[j].type)
          /\ ProviderOf(accounts[i].type) = ProviderOf(accounts[j].type) )
        => Last(Split(accounts[j].accountId))
              # TelemetryTarget(caSrc[i], accounts[i].type)

\* the organization a GcpCfg record declares (None if it declares none)
DeclaredOrg(row) == IF row.idType = "ORGANIZATION" THEN row.id ELSE None

\* the organization the claim resolves to: the explicit one when present,
\* else the override when there is one; `other` when neither exists
ResolvedOrg(explicit, override, other) ==
    IF explicit # None /\ explicit # <<>> THEN explicit
    ELSE IF override # None THEN override
    ELSE other

\* C3: GCP organization resolution: in get_cloud_accounts the organization
\* segment of a GcpCfg entry, and in get_compliance_report the organization
\* the GCP report is requested for, is the explicit organization (declared
\* on the record / carried in the composite id) when present, and the
\* override when the explicit one is absent or empty.
C3_OrgResolution ==
    /\ \A i \in 1..Len(accounts) :
          accounts[i].type = "GcpCfg" =>
              LET segment == Split(accounts[i].accountId)[2]
              IN  segment = ResolvedOrg(DeclaredOrg(caSrc[i]), organization, segment)
    /\ crRequest.api = "gcp" =>
          crRequest.scope = ResolvedOrg(Split(crArgs.cloud_account)[2],
                                        crArgs.organization, crRequest.scope)

\* C4: a GcpCfg record that declares no organization, with no override,
\* yields 'gcp::{projectId}' (empty organization segment) for its projects.
C4_EmptyOrgSegment ==
    \A i \in 1..Len(accounts) :
        ( /\ accounts[i].type = "GcpCfg"
          /\ caSrc[i].idType # "ORGANIZATION"
          /\ organization = None )
        => \E k \in 1..Len(caSrc[i].ids) :
              accounts[i].accountId = sGcp \o <<Colon, Colon>> \o caSrc[i].ids[k]

\* C5: the accountId of every AwsCfg entry is 'aws:' followed by the 5th
\* colon-delimited field of the record's roleArn, and every account number
\* of an iterated AwsCfg record has exactly one entry.
C5_AwsCanonicalId ==
    /\ \A i \in 1..Len(accounts) :
          accounts[i].type = "AwsCfg" =>
              \E f \in ArnFields :
                  /\ accounts[i].accountId = sAws \o <<Colon>> \o f[5]
                  /\ caSrc[i] = AwsRecord(f)
    /\ \A k \in 1..Len(caInt), f \in ArnFields :
          (caInt[k].type = "AwsCfg" /\ caInt[k] = AwsRecord(f)) =>
              Cardinality({i \in 1..Len(accounts) :
                  accounts[i].accountId = sAws \o <<Colon>> \o f[5]}) = 1

\* C5 witness: the call returned after iterating two different AwsCfg
\* records (different role ARNs) of the same account number.
C5_Witness ==
    /\ caPc = "done"
    /\ Len(caInt) = 2
    /\ caInt[1].type = "AwsCfg"
    /\ caInt[2].type = "AwsCfg"
    /\ caInt[1] # caInt[2]
    /\ Split(caInt[1].roleArn)[5] = Split(caInt[2].roleArn)[5]
    /\ Len(accounts) >= 1

-----------------------------------------------------------------------------
(* Properties of sqlite_sync_report                                          *)

\* the table the running call works on
SyTable == db[DbPath(syArgs)]

\* the call is between its first and its last statement on the table
SyInLoop == syPc \in {"loop", "repair", "query"}

\* the keys of all rows given to the call so far
ReportKeys == UNION {DOMAIN syReport[i] : i \in 1..Len(syReport)}

\* C6: schema evolution: after each stored row the column set contains
\* every key of every row stored so far, and after the last row of the
\* report it equals the union of the keys of all rows of the report.
C6_ColumnsAreUnionOfKeys ==
    /\ SyInLoop =>
          \A i \in 1..Len(syStored) : DOMAIN syStored[i] \subseteq ColNames(SyTable)
    /\ syPc = "query" => ColNames(SyTable) = ReportKeys

\* t2 keeps every column of t (same name, same type, same position) and
\* every row of t with its values; columns new in t2 are NULL in those rows
Preserves(t, t2) ==
    /\ t2.exists
    /\ Len(t.cols) <= Len(t2.cols)
    /\ \A i \in 1..Len(t.cols) : t2.cols[i] = t.cols[i]
    /\ Len(t.rows) <= Len(t2.rows)
    /\ \A i \in 1..Len(t.rows) :
          /\ \A c \in ColNames(t) : t2.rows[i][c] = t.rows[i][c]
          /\ \A c \in ColNames(t2) \ ColNames(t) : t2.rows[i][c] = NULL

\* C7: schema repair is monotonic and value-preserving: every step of the
\* repair (each ALTER TABLE, then the retry) keeps all columns with their
\* types and keeps the values of the rows stored before, the added columns
\* being empty for them.
C7_RepairPreserves ==
    [][ (syPc = "repair" /\ (syPc' # "raised" \/ DbPath(syArgs) = "file"))
            => Preserves(db[DbPath(syArgs)], db'[DbPath(syArgs)]) ]_vars

\* C7 witness: a repair has added a column and the retry has stored the
\* row, in a table that held a row before the repair.
C7_Witness ==
    /\ syPc = "loop"
    /\ \E k \in 1..Len(syTrace) : syTrace[k].op = "alter" /\ syTrace[k].ok
    /\ Len(SyTable.rows) >= 2
    /\ \E c \in ColNames(SyTable) : SyTable.rows[1][c] = NULL

\* the statements of one kind issued for the current row
StmtsOf(op) == SelectSeq(syTrace, LAMBDA st : st.op = op)

\* C8: bounded repair: a row gets at most two insert attempts and one
\* repair; the second attempt comes only after a failed first one, the
\* column probe and one successful ALTER TABLE per missing key, and when it
\* fails the call raises without any further statement.
C8_BoundedRepair ==
    LET inserts == StmtsOf("insert")
        selects == StmtsOf("select")
        alters == StmtsOf("alter")
        n == Len(syTrace)
    IN  /\ Len(inserts) <= 2
        /\ Len(selects) <= 1
        /\ n >= 1 => syTrace[1].op = "insert"
        /\ n >= 2 => ~syTrace[1].ok /\ syTrace[2].op = "select"
        /\ \A k \in 3..n : syTrace[k].op = "insert" => k = n
        /\ Len(inserts) = 2 =>
              /\ \A k \in 1..Len(alters) : alters[k].ok
              /\ \A k, l \in 1..Len(alters) : k # l => alters[k].cols # alters[l].cols
              /\ UNION {alters[k].cols : k \in 1..Len(alters)}
                    = DOMAIN syRow \ selects[1].cols
              /\ ~inserts[2].ok => syPc = "raised"
        /\ (n >= 1 /\ ~syTrace[n].ok /\ syTrace[n].op = "alter") => syPc = "raised"

\* C8 witness: the retry of a repaired row failed and the call raised.
C8_Witness ==
    /\ syPc = "raised"
    /\ Len(StmtsOf("insert")) = 2
    /\ Len(StmtsOf("alter")) >= 1
    /\ ~syTrace[Len(syTrace)].ok

\* t2 still holds the columns and the rows of t
StillPresent(t, t2) ==
    /\ ColNames(t) \subseteq ColNames(t2)
    /\ \A i \in 1..Len(t.rows) :
          \E j \in 1..Len(t2.rows) :
              \A c \in ColNames(t) : t2.rows[j][c] = t.rows[i][c]

\* C9 as stated: sync is additive across calls: after a later call on the
\* same persistent database and table the rows and columns stored by the
\* earlier calls are still present.
C9_AdditiveAcrossCalls ==
    (syPc = "returned" /\ DbPath(syArgs) = "file") => StillPresent(syPrev, db["file"])

\* the stored form of a report row in a table with the given columns
StoredRow(row, cols) ==
    [c \in cols |-> IF c \in DOMAIN row THEN Bound(row[c]) ELSE NULL]

\* C9 amended: every call drops the table first, so during a call, and
\* after it on a persistent database, the table holds exactly the rows
\* stored by this call, in order, and only columns named by rows of this
\* call: rows are appended within a call and nothing of an earlier call is
\* retained.
C9_HoldsThisCallsRows ==
    (SyInLoop \/ (syPc \in {"returned", "raised"} /\ DbPath(syArgs) = "file")) =>
        /\ Len(SyTable.rows) = Len(syStored)
        /\ UNION {DOMAIN syStored[i] : i \in 1..Len(syStored)} \subseteq ColNames(SyTable)
        /\ ColNames(SyTable) \subseteq ReportKeys
        /\ \A i \in 1..Len(syStored) :
              SyTable.rows[i] = StoredRow(syStored[i], ColNames(SyTable))

\* C9 witness: a second call on the persistent database returned with rows
\* stored, the table having held rows of the earlier call when it started.
C9_Witness ==
    /\ syPc = "returned"
    /\ syCalls = 2
    /\ DbPath(syArgs) = "file"
    /\ Len(syPrev.rows) >= 1
    /\ Len(db["file"].rows) >= 1

\* C10: sync-and-query round trip: a call with the 'lwaccount' query on
\* rows that all carry lwAccount returns exactly the set of distinct
\* lwAccount values of the input rows (hence the same for every order).
C10_RoundTrip ==
    ( /\ syPc = "returned"
      /\ "lwaccount" \in syArgs.queries
      /\ \A i \in 1..Len(syReport) : "lwAccount" \in DOMAIN syReport[i] )
    => \A res \in syResults :
          res.query = "lwaccount" =>
              {res.rows[k] : k \in 1..Len(res.rows)}
                  = {Bound(syReport[i]["lwAccount"]) : i \in 1..Len(syReport)}

\* C30: no input row is silently dropped: whenever sqlite_sync_report
\* returns normally, one row was stored for every row of the report, in
\* the order of the report.
C30_NoRowDropped ==
    syPc = "returned" => syStored = syReport

-----------------------------------------------------------------------------
(* Properties of sqlite_drop_table                                           *)

\* C11: sqlite_drop_table is idempotent.  Every call returns True and raises
\* nothing; a call that finds no table changes nothing in the database; a
\* call that finds the table removes it, so a second call right after it
\* finds no table and again returns True.
C11_DropIdempotent ==
    [][ Len(sdHist') = Len(sdHist) + 1 =>
          /\ sdRet' = PyTrue
          /\ ~db'["file"].exists
          /\ (~db["file"].exists => db' = db) ]_vars

\* a table holding rows of a sync call was dropped, and dropped again
C11_Witness ==
    /\ Len(sdHist) >= 2
    /\ sdHist[1] = TRUE
    /\ sdHist[2] = FALSE
    /\ sdRet = PyTrue
    /\ syStored # <<>>
    /\ DbPath(syArgs) = "file"
    /\ ~db["file"].exists

-----------------------------------------------------------------------------
(* Properties of ComplianceQueries                                           *)

CqRan == cqResults # NoResults

\* the recommendations of the stored reports
CqRecs == Recommendations(cqTable)

\* 100 - v*100/a as a real number, truncated to an integer: the integer p
\* with p <= 100 - v*100/a < p + 1 (for 0 <= v <= a, a > 0)
TruncatedPercent(v, a) ==
    CHOOSE p \in 0..100 : /\ p * a <= 100 * a - v * 100
                          /\ 100 * a - v * 100 < (p + 1) * a

\* the per-control rule of the specification
PercentRule(v, a) == IF v > a THEN 100 ELSE TruncatedPercent(v, a)

\* C12: for a control with v >= 0 violations and a > 0 assessed resources,
\* percent is 100 if v > a and otherwise 100 - v*100/a truncated to an
\* integer; a control is a row of query 'report' only if its percent is
\* below 100 and its status is not 'Compliant'.
C12_PercentPerControl ==
    CqRan =>
      /\ \A i \in 1..Len(CqRecs) :
           LET v == CqRecs[i].violation_count
               a == CqRecs[i].assessed_resource_count
           IN  a > 0 => Percent(v, a) = Num(PercentRule(v, a))
      /\ \A i \in 1..Len(cqResults.report) :
           LET r == cqResults.report[i]
           IN  /\ r.status # "Compliant"
               /\ ~IsNull(r.percent) /\ ValueOf(r.percent) < 100
               /\ r.assessed_resource_count > 0 =>
                    r.percent = Num(PercentRule(r.violation_count,
                                                r.assessed_resource_count))

\* 5 violations of 10 assessed resources are reported with percent 50, and
\* a non-compliant control with 12 violations of 10 (percent 100) is not
\* reported
C12_Witness ==
    /\ CqRan
    /\ \E i \in 1..Len(cqResults.report) :
         /\ cqResults.report[i].violation_count = 5
         /\ cqResults.report[i].assessed_resource_count = 10
         /\ cqResults.report[i].percent = Num(50)
    /\ \E i \in 1..Len(CqRecs) :
         /\ CqRecs[i].violation_count = 12
         /\ CqRecs[i].assessed_resource_count = 10
         /\ CqRecs[i].status = "NonCompliant"
    /\ \A i \in 1..Len(cqResults.report) :
         cqResults.report[i].violation_count # 12

\* the rows of the three aggregate queries, each with the group of
\* recommendations it aggregates
CqAggregates ==
    {[row |-> cqResults.account_coverage[i],
      group |-> SelectSeq(CqRecs, LAMBDA r :
                  r.accountId = cqResults.account_coverage[i].accountId)] :
        i \in 1..Len(cqResults.account_coverage)}
    \cup {[row |-> s,
           group |-> SelectSeq(CqRecs, LAMBDA r : r.lwAccount = s.lwAccount)] :
            s \in cqResults.lwaccount_summary}
    \cup {[row |-> cqResults.total_summary[1], group |-> CqRecs]}

\* the summed violation count of the controls of group g whose severity is
\* named `name` by query 'report'
NamedSum(g, name) ==
    SqlSum(MapSeq(g, LAMBDA r : IF SeverityName(r.severity_number) = name
                                THEN r.violation_count ELSE 0))

\* C13: in account_coverage, lwaccount_summary and total_summary the columns
\* critical, high, medium, low and info hold the summed violation count of
\* exactly the controls that the mapping 1 info, 2 low, 3 medium, 4 high,
\* 5 critical (the names query 'report' gives) names critical, high, medium,
\* low and info.
C13_BucketsFollowNames ==
    CqRan =>
      \A x \in CqAggregates :
        /\ x.row.critical = NamedSum(x.group, "critical")
        /\ x.row.high = NamedSum(x.group, "high")
        /\ x.row.medium = NamedSum(x.group, "medium")
        /\ x.row.low = NamedSum(x.group, "low")
        /\ x.row.info = NamedSum(x.group, "info")

\* C14: for a group with summed violation count V and summed assessed count
\* A > 0, total_coverage is what the per-control rule gives for (V, A): 100
\* if V > A, else 100 - V*100/A truncated; a group of one control has the
\* percent of that control.
C14_AggregateSameRule ==
    CqRan =>
      \A x \in CqAggregates :
        x.row.total_assessed_resource_count > 0 =>
          x.row.total_coverage =
            Num(PercentRule(x.row.total_violation_count,
                            x.row.total_assessed_resource_count))

\* C19: a coverage value is a number, never NULL, also when its denominator
\* (the assessed resource count of a control, or of a group) is zero.
C19_ZeroDenominatorGuarded ==
    CqRan =>
      /\ \A i \in 1..Len(CqRecs) :
           ~IsNull(Percent(CqRecs[i].violation_count,
                           CqRecs[i].assessed_resource_count))
      /\ \A x \in CqAggregates : ~IsNull(x.row.total_coverage)

-----------------------------------------------------------------------------
(* Properties of VulnerabilityQueries                                        *)

\* the value of one band of the step function for a count n > 0
Band(n, above10, above5, above0) ==
    IF n > 10 THEN above10 ELSE IF n > 5 THEN above5 ELSE above0

\* C15: the per-instance score is decided by the first non-empty bucket in
\* the order critical, high, medium, low: critical gives 0 / 5 / 9 (more
\* than 10, more than 5, otherwise), high 40 / 45 / 49, medium 60 / 65 / 69,
\* low 70 / 75 / 79, whatever the later buckets hold; with all five buckets
\* empty the score is 100.
C15_ScoreStepFunction ==
    vsScore # <<>> =>
      LET k == vsCounts
          s == vsScore[1]
      IN  /\ k.critical > 0 => s = Num(Band(k.critical, 0, 5, 9))
          /\ k.critical = 0 /\ k.high > 0 => s = Num(Band(k.high, 40, 45, 49))
          /\ k.critical = 0 /\ k.high = 0 /\ k.medium > 0 =>
               s = Num(Band(k.medium, 60, 65, 69))
          /\ k.critical = 0 /\ k.high = 0 /\ k.medium = 0 /\ k.low > 0 =>
               s = Num(Band(k.low, 70, 75, 79))
          /\ k.critical = 0 /\ k.high = 0 /\ k.medium = 0 /\ k.low = 0
               /\ k.info = 0 => s = Num(100)

\* critical = 6 scores 5 although the high bucket holds more than 10
C15_Witness ==
    /\ vsScore = <<Num(5)>>
    /\ vsCounts.critical = 6
    /\ vsCounts.high = 11
    /\ vsCounts.info = 3

VqRan == vqResults # NoResults

\* the finding rows whose instance is in table machines
VqKept ==
    SelectSeq(vqTable, LAMBDA f :
        f.instanceId \in {m.tag_instanceId : m \in vqMachines})

\* the instances with findings of the rows g of a query result
InstancesOf(g) == {g[i].instanceId : i \in 1..Len(g)}

\* the rows of query 'report' for one instance all carry its totals
ReportRowOf(inst) ==
    CHOOSE r \in {vqResults.report[i] : i \in 1..Len(vqResults.report)} :
        r.instanceId = inst

RECURSIVE SumOver(_, _)
SumOver(S, f) ==
    IF S = {} THEN 0
    ELSE LET x == CHOOSE y \in S : TRUE IN f[x] + SumOver(S \ {x}, f)

\* C16: whatever order the engine numbers the rows in, among the rows of
\* instances present in machines _vulncount is 1 on exactly one row of each
\* (instanceId, vulnId) pair and 0 on the others, and _instcount is 1 on
\* exactly one row of each instanceId; so the total_violation_count of an
\* instance is its number of distinct vulnIds, and the account sums count
\* each instance once, however many duplicate rows there are.
C16_Deduplication ==
    VqRan =>
      /\ \A ord \in Permutations(1..Len(vqTable)) :
           LET t2 == VulnT2(vqTable, vqMachines, ord)
               rows == 1..Len(t2)
           IN  /\ Len(t2) = Len(VqKept)
               /\ \A i \in rows :
                    /\ t2[i]._vulncount \in {0, 1}
                    /\ t2[i]._instcount \in {0, 1}
                    /\ Cardinality({j \in rows :
                          /\ t2[j].instanceId = t2[i].instanceId
                          /\ t2[j].vulnId = t2[i].vulnId
                          /\ t2[j]._vulncount = 1}) = 1
                    /\ Cardinality({j \in rows :
                          /\ t2[j].instanceId = t2[i].instanceId
                          /\ t2[j]._instcount = 1}) = 1
      /\ \A i \in 1..Len(vqResults.report) :
           LET r == vqResults.report[i]
           IN  r.total_violation_count =
                 Cardinality({VqKept[j].vulnId : j \in
                    {k \in 1..Len(VqKept) : VqKept[k].instanceId = r.instanceId}})
      /\ \A i \in 1..Len(vqResults.account_coverage) :
           LET a == vqResults.account_coverage[i]
               insts == InstancesOf(SelectSeq(vqResults.report,
                            LAMBDA r : r.accountId = a.accountId))
           IN  /\ a.total_violation_count =
                    SumOver(insts, [n \in insts |-> ReportRowOf(n).total_violation_count])
               /\ a.critical = SumOver(insts, [n \in insts |-> ReportRowOf(n).total_critical])
               /\ a.high = SumOver(insts, [n \in insts |-> ReportRowOf(n).total_high])
               /\ a.medium = SumOver(insts, [n \in insts |-> ReportRowOf(n).total_medium])
               /\ a.low = SumOver(insts, [n \in insts |-> ReportRowOf(n).total_low])
               /\ a.info = SumOver(insts, [n \in insts |-> ReportRowOf(n).total_info])

\* two rows report the same finding of one instance, and the account counts
\* one violation
C16_Witness ==
    /\ VqRan
    /\ Len(VqKept) = 2
    /\ VqKept[1].instanceId = VqKept[2].instanceId
    /\ VqKept[1].vulnId = VqKept[2].vulnId
    /\ VqKept[1].severity = "Critical"
    /\ VqKept[2].severity = "Critical"
    /\ Len(vqResults.account_coverage) = 1
    /\ vqResults.account_coverage[1].total_violation_count = 1
    /\ vqResults.account_coverage[1].critical = 1

\* the weighted full-fleet coverage of a set of instances with findings
\* among `assets` agent-covered instances
Weighted(insts, assets) ==
    ((assets - Cardinality(insts)) * 100
       + SumOver(insts, [n \in insts |-> ValueOf(ReportRowOf(n).total_coverage)]))
    \div assets

\* every instance of the set has a numeric score
Scored(insts) == \A n \in insts : ~IsNull(ReportRowOf(n).total_coverage)

\* the agent-covered instances of an account
AssetsOfAccount(acc) ==
    {m.tag_instanceId : m \in {x \in vqMachines : x.accountId = acc}}

\* C17: for each (lwAccount, accountId) of account_coverage, total_assets is
\* the number of distinct instances of the account in machines and
\* total_coverage = ((total_assets - total_assets_in_violation) * 100 + the
\* sum of the scores of the instances with findings) / total_assets.
C17_AccountCoverage ==
    VqRan =>
      \A i \in 1..Len(vqResults.account_coverage) :
        LET a == vqResults.account_coverage[i]
            insts == InstancesOf(SelectSeq(vqResults.report,
                         LAMBDA r : r.accountId = a.accountId))
        IN  /\ a.total_assets = Cardinality(AssetsOfAccount(a.accountId))
            /\ a.total_assets_in_violation = Cardinality(insts)
            /\ Scored(insts)
            /\ a.total_coverage = Num(Weighted(insts, a.total_assets))

\* C18: lwaccount_summary (total_summary) holds the weighted full-fleet
\* coverage of the tenant (of all tenants): ((assets without findings * 100)
\* + the sum of the scores of the assets with findings) / total assets,
\* with the total_assets the row itself reports, for every tenant whose
\* instances with findings all have a numeric score.
C18_SummaryWeighted ==
    VqRan =>
      /\ \A s \in vqResults.lwaccount_summary :
           LET insts == InstancesOf(SelectSeq(vqResults.report,
                            LAMBDA r : r.lwAccount = s.lwAccount))
           IN  Scored(insts) =>
                 s.total_coverage = Num(Weighted(insts, ValueOf(s.total_assets)))
      /\ LET insts == InstancesOf(vqResults.report)
             s == vqResults.total_summary[1]
         IN  insts # {} /\ Scored(insts) =>
               s.total_coverage = Num(Weighted(insts, ValueOf(s.total_assets)))

\* C28: the per-instance score is total: for every combination of bucket
\* counts the step function yields a number in 0..100, never NULL.
C28_ScoreTotal ==
    vsScore # <<>> =>
        /\ ~IsNull(vsScore[1])
        /\ ValueOf(vsScore[1]) \in 0..100

-----------------------------------------------------------------------------
(* Properties of the remote API boundary                                     *)

\* C20: an error of the remote API does not propagate out of
\* get_cloud_accounts: with ignore_errors left at its default the call
\* returns a list.
C20_ApiErrorsHandled == caPc # "raised"

-----------------------------------------------------------------------------
(* Properties of the per-account operations                                  *)

\* the organization segment of a three-segment GCP composite id is absent:
\* empty ('gcp::p', as the telemetry path builds it) or the text 'None'
\* ('gcp:None:p', as the integration path builds it)
OrgSegmentAbsent(cloud_account) ==
    LET d == Split(cloud_account)
    IN  /\ Len(d) = 3
        /\ d[1] = sGcp
        /\ d[2] \in {<<>>, sNoneText}

\* C21: for a GCP composite id whose organization segment is absent or
\* empty, with no organization override, get_compliance_report requests
\* no remote report; with ignore_errors it returns an empty list, without
\* it the call raises (it never returns normally).
C21_MissingOrganization ==
    (crPc # "idle" /\ OrgSegmentAbsent(crArgs.cloud_account)
        /\ crArgs.organization = None)
    => /\ crRequest = NoRequest
       /\ crResult = <<>>
       /\ (crArgs.ignore_errors <=> crPc = "returned")

-----------------------------------------------------------------------------
(* Properties of the report accumulator                                      *)

\* how many times row r occurs in the list l
Occurrences(l, r) == Cardinality({j \in 1..Len(l) : l[j] = r})

\* C27: no report is lost by the accumulator: after report_callback has run
\* for every completed future, under any interleaving of the callbacks,
\* get_reports returns a list that holds every row of every non-None result
\* exactly once, and its length is the sum of the lengths of the results.
C27_NoReportLost ==
    rcReturned # <<>> =>
        LET got == rcReturned[1]
        IN  /\ Len(got) = SumSeq([t \in 1..Len(rcFutures) |-> Len(rcFutures[t].rows)])
            /\ \A t \in 1..Len(rcFutures) :
                  \A k \in 1..Len(rcFutures[t].rows) :
                      Occurrences(got, rcFutures[t].rows[k]) = 1

-----------------------------------------------------------------------------
(* Properties of the discovery queries                                       *)

MultiQueryOps == {"get_discovered_cloud_accounts", "get_active_cloud_accounts"}

\* the rows of the queries issued so far that succeeded, in provider order,
\* computed from what the platform knows
RowsOfSucceeded ==
    Concat([i \in 1..Len(dcIssued) |->
               IF dcIssued[i].ok
               THEN AccountRows(dcArgs.op, DcProviders(dcArgs.op)[i],
                                dcArgs.lwAccount, dcWorld)
               ELSE <<>>])

\* C26: partial results in the multi-query discovery methods.  The queries
\* are issued in provider order; the list gathered so far, and the list
\* returned, is the concatenation in provider order of the results of
\* exactly the queries that succeeded.  With ignore_errors a failed query
\* raises nothing and the method returns only after every provider's query
\* was issued; without it the first failure is raised and is the last query
\* issued.
C26_PartialResults ==
    dcArgs.op \in MultiQueryOps =>
        /\ \A i \in 1..Len(dcIssued) : dcIssued[i].csp = DcProviders(dcArgs.op)[i]
        /\ dcResults = RowsOfSucceeded
        /\ dcArgs.ignore_errors =>
              /\ dcPc \in {"query", "returned"}
              /\ dcPc = "returned" => Len(dcIssued) = Len(DcProviders(dcArgs.op))
        /\ ~dcArgs.ignore_errors =>
              /\ \A i \in 1..Len(dcIssued) :
                    ~dcIssued[i].ok => (i = Len(dcIssued) /\ dcPc = "ApiError")
              /\ dcPc = "returned" => Len(dcIssued) = Len(DcProviders(dcArgs.op))

\* get_active_cloud_accounts returned after its gcp query failed, with rows
\* from the aws query before it and from the az query after it
C26_Witness ==
    /\ dcPc = "returned"
    /\ dcArgs.op = "get_active_cloud_accounts"
    /\ dcArgs.ignore_errors
    /\ dcIssued[1].ok /\ dcIssued[1].rows # <<>>
    /\ ~dcIssued[2].ok
    /\ dcIssued[3].ok /\ dcIssued[3].rows # <<>>
    /\ Len(dcResults) = 2

\* the cloud_account argument has an unsupported provider prefix or the
\* wrong number of ':'-separated segments for its provider
MalformedAccount(cloud_account) ==
    LET d == Split(cloud_account)
    IN  \/ d[1] \notin {sAws, sGcp, sAz}
        \/ d[1] = sAws /\ Len(d) # 2
        \/ d[1] \in {sGcp, sAz} /\ Len(d) # 3

\* C22: configuration errors return empty instead of raising: a call of
\* get_active_machines or get_discovered_machines with a malformed
\* cloud_account returns an empty result and raises nothing.
C22_ConfigErrorsReturnEmpty ==
    ( /\ dcArgs.op \in {"get_active_machines", "get_discovered_machines"}
      /\ dcPc # "idle"
      /\ MalformedAccount(dcArgs.cloud_account) )
    => (dcPc = "returned" /\ dcResults = <<>>)

\* the composite format of get_cloud_accounts: 'aws:{account}',
\* 'gcp:{org}:{project}', 'az:{tenant}:{subscription}' with the
\* subscription in upper case
CompositeShape(accountId) ==
    LET d == Split(accountId)
    IN  \/ d[1] = sAws /\ Len(d) = 2
        \/ d[1] = sGcp /\ Len(d) = 3
        \/ d[1] = sAz /\ Len(d) = 3 /\ d[3] = Upper(d[3])

\* C23: every accountId built inside a discovery query has the composite
\* format of get_cloud_accounts.
C23_SameCompositeFormat ==
    \A i \in 1..Len(dcResults) : CompositeShape(dcResults[i].accountId)

-----------------------------------------------------------------------------
(* Properties of AgentQueries                                                *)

AqRan == aqResults # NoResults

\* the stored instances of account a whose state is 'running', in any case
RunningOf(a) ==
    {i \in 1..Len(aqTable) :
        /\ aqTable[i].accountId = a
        /\ aqTable[i].state \in {sRunning, sRunningUpper}}

\* the agent rows matching stored instance i
AgentsOf(i) == {m \in aqMachines : m.tag_instanceId = aqTable[i].instanceId}

\* total_installed of account a: the sum of has_agent over its running
\* instances
InstalledOf(a) ==
    SumOver(RunningOf(a), [i \in RunningOf(a) |-> Cardinality(AgentsOf(i))])

AqAccounts == {AccountOrder[i] : i \in 1..Len(AccountOrder)}

\* the accounts of tenant l (of every tenant for "Any") with a running
\* instance
AqAccountsOf(l) ==
    {a \in AqAccounts : RunningOf(a) # {} /\ (l = "Any" \/ LwAccountOf[a] = l)}

\* a summary row carries the sums of the per-account totals of its accounts
SumsOfAccounts(row) ==
    LET as == AqAccountsOf(row.lwAccount)
    IN  /\ row.total = SumOver(as, [a \in as |-> Cardinality(RunningOf(a))])
        /\ as # {} =>
              row.total_installed = Num(SumOver(as, [a \in as |-> InstalledOf(a)]))

\* C24: agent account_coverage has one row for each (lwAccount, accountId)
\* with a running instance; its total is the number of stored instances of
\* the account whose state is 'running' in any case, total_installed the sum
\* of has_agent over exactly those, total_coverage the integer quotient
\* total_installed * 100 / total; instances in other states change nothing.
\* The totals of lwaccount_summary and total_summary are the sums of the
\* per-account totals of the tenant and of all accounts.
C24_AgentAccountCoverage ==
    AqRan =>
        LET rows == aqResults.account_coverage
        IN  /\ {rows[k].accountId : k \in 1..Len(rows)}
                  = {a \in AqAccounts : RunningOf(a) # {}}
            /\ \A k \in 1..Len(rows) :
                  LET a == rows[k].accountId
                  IN  /\ \A j \in 1..Len(rows) : rows[j].accountId = a => j = k
                      /\ rows[k].lwAccount = LwAccountOf[a]
                      /\ rows[k].total = Cardinality(RunningOf(a))
                      /\ rows[k].total_installed = Num(InstalledOf(a))
                      /\ rows[k].total_coverage
                            = Num((InstalledOf(a) * 100) \div Cardinality(RunningOf(a)))
            /\ \A row \in aqResults.lwaccount_summary : SumsOfAccounts(row)
            /\ {row.lwAccount : row \in aqResults.lwaccount_summary}
                  = {LwAccountOf[a] : a \in AqAccountsOf("Any")}
            /\ SumsOfAccounts(aqResults.total_summary[1])

\* an account with an upper-case 'RUNNING' instance that has an agent and
\* a stopped instance that has one too: 1 of 1, coverage 100
C24_Witness ==
    /\ AqRan
    /\ \E i, j \in 1..Len(aqTable) :
          /\ aqTable[i].accountId = aqTable[j].accountId
          /\ aqTable[i].state = sRunningUpper
          /\ aqTable[j].state = sStopped
          /\ Cardinality(AgentsOf(i)) = 1
          /\ Cardinality(AgentsOf(j)) = 1
    /\ Len(aqResults.account_coverage) = 1
    /\ aqResults.account_coverage[1].total = 1
    /\ aqResults.account_coverage[1].total_coverage = Num(100)

\* has_agent is 0 or 1, total_installed <= total, total_not_installed >= 0
\* and total_coverage <= 100 in a row of a rollup (NULL columns aside)
CoverageBounded(row) ==
    /\ ~IsNull(row.total_installed) => ValueOf(row.total_installed) <= row.total
    /\ ~IsNull(row.total_coverage) => ValueOf(row.total_coverage) <= 100
    /\ ("total_not_installed" \in DOMAIN row /\ ~IsNull(row.total_not_installed))
          => ValueOf(row.total_not_installed) >= 0

\* C29: agent coverage is bounded: for any contents of the machines table
\* and of the discovered-instances table has_agent is 0 or 1 for every
\* instance, and in account_coverage, lwaccount_summary and total_summary
\* total_installed <= total, total_not_installed >= 0, total_coverage <= 100.
C29_CoverageBounded ==
    AqRan =>
        /\ \A k \in 1..Len(aqResults.report) : aqResults.report[k].has_agent \in {0, 1}
        /\ \A k \in 1..Len(aqResults.account_coverage) :
              CoverageBounded(aqResults.account_coverage[k])
        /\ \A row \in aqResults.lwaccount_summary : CoverageBounded(row)
        /\ CoverageBounded(aqResults.total_summary[1])

-----------------------------------------------------------------------------
(* Properties of row attribution                                             *)

\* a row carries the account and the tenant of the call that obtained it
CarriesItsCall(row) ==
    /\ row.accountId = {row.call.cloud_account}
    /\ row.lwAccount = {row.call.lwAccount}

\* every row obtained so far, in memory or in the shared table, carries the
\* account and the tenant of its call, and none lacks either field
AllAttributed ==
    /\ \A i \in 1..Len(vrRows) : CarriesItsCall(vrRows[i])
    /\ \A i \in 1..Len(vrTable.rows) : CarriesItsCall(vrTable.rows[i])

\* a call leaves the rows obtained by earlier calls as they were
EarlierRowsKept ==
    /\ Len(vrRows') >= Len(vrRows)
    /\ \A i \in 1..Len(vrRows) : vrRows'[i] = vrRows[i]
    /\ Len(vrTable'.rows) >= Len(vrTable.rows)
    /\ \A i \in 1..Len(vrTable.rows) : vrTable'.rows[i] = vrTable.rows[i]

\* C25: row attribution: after get_compliance_report and
\* get_vulnerability_report were called for one account after the other,
\* every row obtained for an account carries the accountId and the lwAccount
\* of its call, in the returned rows and in the shared table; no stored row
\* lacks either field, and a later call never changes the rows of an earlier
\* one.
C25_RowAttribution == []AllAttributed /\ [][EarlierRowsKept]_vars

\* after the last call the shared table holds rows stored by two calls for
\* different accounts of different tenants, and the caller holds rows
\* obtained in memory
C25_Witness ==
    /\ vrCalls = Len(ReportRun)
    /\ vrRows # <<>>
    /\ \E i, j \in 1..Len(vrTable.rows) :
          /\ vrTable.rows[i].call.cloud_account # vrTable.rows[j].call.cloud_account
          /\ vrTable.rows[i].call.lwAccount # vrTable.rows[j].call.lwAccount

=============================================================================
